---- MODULE Spec2Model ----
(***************************************************************************)
(* node-global-storage 3.x: the Entry Store (a Map of StorageItem) and the *)
(* Default Options Registry, with the synchronous onUpdate / onDelete      *)
(* callbacks.  A callback is code of the caller: while it runs it may call *)
(* the store again, so an operation that invokes a callback is suspended   *)
(* on a call stack until the callback returns.                             *)
(***************************************************************************)
EXTENDS Integers, Sequences, FiniteSets, TLC

\* ---- bounded input domains ------------------------------------------------
Keys == {"k1", "k2"}
Values == {"v1", "v2"}
Callbacks == {"cb1", "cb2"}
Undefined == "undefined"

\* Bounds of the exploration.
MaxOps == 3        \* API calls (top-level and nested) in one run, clock stopped
MaxClockOps == 3   \* top-level API calls in one run while the clock runs
MaxSeqOps == 4     \* top-level API calls in one run of straight-line client code
MaxReadOps == 3    \* top-level calls and client assignments in one run with reads
MaxDepth == 2      \* callbacks suspended on the call stack at once
MaxTime == 1       \* largest reading of the clock

NoTime == 0 - 1    \* "createdAt is undefined" on a fresh item
Live == 0          \* a frame's item is the object stored under its key

\* An optional field of an options bag: <<>> when omitted, <<x>> when supplied.
Opt(S) == {<<>>} \cup {<<x>> : x \in S}

\* options?.field ?? defaultOptions.field
Coalesce(opt, default) == IF opt = <<>> THEN default ELSE opt[1]

NoOptions ==
  [protected |-> <<>>, force |-> <<>>, silent |-> <<>>,
   onUpdate |-> <<>>, onDelete |-> <<>>]

OnlyOption(f, x) == [NoOptions EXCEPT ![f] = <<x>>]

\* The options bags of the runs: options omitted, or one field supplied.  The
\* other fields then come from the registry, which the runs set freely.
SetOptions ==
  {NoOptions}
    \cup {OnlyOption(f, b) : f \in {"protected", "force", "silent"}, b \in BOOLEAN}
    \cup {OnlyOption(f, cb) : f \in {"onUpdate", "onDelete"}, cb \in Callbacks}

UnsetOptions == [silent : Opt(BOOLEAN)]

FlushOptions == UnsetOptions

\* ---- state ------------------------------------------------------------------
VARIABLES
  datastore,       \* the Map, in insertion order: a sequence of [key, item]
  defaultOptions,  \* the registry
  now,             \* the clock read by new Date()
  stack,           \* suspended operations and running callbacks, top last
  detached,        \* items held by a suspended setValue but no longer stored
  hist,            \* events of the current top-level operation
  opsLeft          \* API calls the run may still make

vars == <<datastore, defaultOptions, now, stack, detached, hist, opsLeft>>

initialDefaultOptions ==
  [protected |-> FALSE, force |-> FALSE, onUpdate |-> Undefined,
   onDelete |-> Undefined, silent |-> FALSE]

\* `{} as StorageItem`: every field undefined (protected is falsy).
EmptyItem ==
  [value |-> Undefined, protected |-> FALSE, onUpdate |-> Undefined,
   onDelete |-> Undefined, createdAt |-> NoTime, updatedAt |-> NoTime]

\* ---- the Map ------------------------------------------------------------------
IndexOf(ds, key) ==
  IF \E i \in 1..Len(ds) : ds[i].key = key
  THEN CHOOSE i \in 1..Len(ds) : ds[i].key = key
  ELSE 0

MapHas(ds, key) == IndexOf(ds, key) # 0

MapGet(ds, key) == ds[IndexOf(ds, key)].item

\* Fault: a set that only inserts.
MapSetIfAbsent(ds, key, item) ==
  IF \E i \in 1..Len(ds) : ds[i].key = key
  THEN ds
  ELSE Append(ds, [key |-> key, item |-> item])

\* Fault: a set that deletes the key first, so that an updated key goes last.
MapSetMovingToEnd(ds, key, item) ==
  LET others(e) == e.key # key
  IN Append(SelectSeq(ds, others), [key |-> key, item |-> item])

\* Map.prototype.set: an existing key keeps its position, a new key goes last.
MapSet(ds, key, item) ==
  IF MapHas(ds, key)
  THEN [ds EXCEPT ![IndexOf(ds, key)] = [key |-> key, item |-> item]]
  ELSE Append(ds, [key |-> key, item |-> item])

\* Fault: datastore.clear() for datastore.delete(key).
MapClear(ds, key) == IF IndexOf(ds, key) = 0 THEN ds ELSE <<>>

MapDelete(ds, key) ==
  LET p == IndexOf(ds, key)
  IN IF p = 0 THEN ds
     ELSE [i \in 1..(Len(ds) - 1) |-> IF i < p THEN ds[i] ELSE ds[i + 1]]

MapKeys(ds) == {ds[i].key : i \in 1..Len(ds)}

\* ---- read operations ------------------------------------------------------------
getStorageItem(ds, key) == IF MapHas(ds, key) THEN MapGet(ds, key) ELSE Undefined

getValue(ds, key) == IF MapHas(ds, key) THEN MapGet(ds, key).value ELSE Undefined

getMetadata(ds, key) == getStorageItem(ds, key)

isSet(ds, key) == MapHas(ds, key)

\* Fault: the item tested instead of its flag (Boolean(getStorageItem(key))).
isProtectedWhenSet(ds, key) == MapHas(ds, key)

isProtected(ds, key) == IF MapHas(ds, key) THEN MapGet(ds, key).protected ELSE FALSE

\* Keys that are array indices (canonical numeric strings), and their numbers.
IndexKeys == {"2", "10"}

ToNumber == [key \in IndexKeys |-> IF key = "2" THEN 2 ELSE 10]

RECURSIVE Ascending(_)
Ascending(keys) ==
  IF keys = {} THEN <<>>
  ELSE LET lowest == CHOOSE k \in keys : \A j \in keys : ToNumber[k] <= ToNumber[j]
       IN << lowest >> \o Ascending(keys \ {lowest})

\* The properties of the plain object that lines 267-270 and 291-294 build by
\* ({ ...memo, [key]: ... }), in the order the object enumerates them: the
\* array-index keys in ascending numeric order, then the other keys in the
\* order they were added, which is the Map's order.
OwnProperties(entries) ==
  LET index(e) == e.key \in IndexKeys
      other(e) == e.key \notin IndexKeys
      indexed == SelectSeq(entries, index)
      numbers == Ascending({indexed[n].key : n \in 1..Len(indexed)})
      at(key) == CHOOSE n \in 1..Len(indexed) : indexed[n].key = key
  IN [n \in 1..Len(numbers) |-> indexed[at(numbers[n])]] \o SelectSeq(entries, other)

\* Fault: the accumulator not spread into the result (({ [key]: value })), so
\* that only the last key is left.
getAllValuesLastOnly(ds) ==
  IF ds = <<>> THEN <<>>
  ELSE << [key |-> ds[Len(ds)].key, value |-> ds[Len(ds)].item.value] >>

\* Lines 267-270: the object of the values by key.
getAllValues(ds) ==
  OwnProperties([i \in 1..Len(ds) |-> [key |-> ds[i].key, value |-> ds[i].item.value]])

\* Lines 291-294: the object of the items by key.
getAllMetadata(ds) ==
  OwnProperties([i \in 1..Len(ds) |-> [key |-> ds[i].key, item |-> ds[i].item]])

\* Fault: the registry's own object returned (return defaultOptions).
getDefaultOptionsByReference(dopt) == [registry |-> TRUE, fields |-> dopt]

\* Line 476, { ...defaultOptions }: a new object with the registry's fields.
\* `registry` tells whether an object is the registry's own object.
getDefaultOptions(dopt) == [registry |-> FALSE, fields |-> dopt]

\* ---- the call stack -----------------------------------------------------------
\* The machine an operation runs on: the Map, the stack, the detached items and
\* the events.  defaultOptions and now are read from the state.
Machine == [ds |-> datastore, stack |-> stack, det |-> detached, hist |-> hist]

Depth(st) == Cardinality({i \in 1..Len(st) : st[i].op = "callback"})

Top(st) == st[Len(st)]

Pop(st, n) == SubSeq(st, 1, Len(st) - n)

Fresh == 0 - 1     \* a frame's item is the `{}` made for an absent key

CallEvent(m, op, key, value, options) ==
  [ev |-> "call", op |-> op, key |-> key, value |-> value, options |-> options,
   depth |-> Depth(m.stack), ds |-> m.ds, dopt |-> defaultOptions, now |-> now]

CallbackEvent(m, kind, cb, key, a1, a2) ==
  [ev |-> "cb", kind |-> kind, cb |-> cb, key |-> key, a1 |-> a1, a2 |-> a2,
   depth |-> Depth(m.stack) + 1]

ReturnEvent(m, op, val) ==
  [ev |-> "ret", op |-> op, val |-> val, depth |-> Depth(m.stack)]

\* The operation `op` returns `val` to its caller (the top level when the stack
\* is empty, else the callback body that called it).
Return(m, op, val) == [m EXCEPT !.hist = Append(@, ReturnEvent(m, op, val))]

\* Invoke a callback of the item stored under `key`: the operation is suspended
\* under the callback's frame.
Invoke(m, frame, kind, cb, key, a1, a2) ==
  [m EXCEPT
     !.stack = @ \o << frame, [op |-> "callback", kind |-> kind, cb |-> cb, key |-> key] >>,
     !.hist = Append(@, CallbackEvent(m, kind, cb, key, a1, a2))]

\* The object a suspended setValue holds in `item`.
Deref(m, key, ref) == IF ref = Live THEN MapGet(m.ds, key) ELSE m.det[ref]

HoldsLive(st, key) ==
  \E i \in 1..Len(st) : st[i].op = "setValue" /\ st[i].key = key /\ st[i].item = Live

\* Every suspended setValue whose item is `from` now holds `to`.
Retarget(st, key, from, to) ==
  [i \in 1..Len(st) |->
     IF st[i].op = "setValue" /\ st[i].key = key /\ st[i].item = from
     THEN [st[i] EXCEPT !.item = to]
     ELSE st[i]]

\* Drop slot `ref` of the detached items and renumber the references above it.
Release(m, ref) ==
  LET det == m.det
      st == m.stack
  IN [m EXCEPT
        !.det = [i \in 1..(Len(det) - 1) |-> IF i < ref THEN det[i] ELSE det[i + 1]],
        !.stack = [i \in 1..Len(st) |->
                     IF st[i].op = "setValue" /\ st[i].item > ref
                     THEN [st[i] EXCEPT !.item = st[i].item - 1]
                     ELSE st[i]]]

\* Fault: a loop over a copy of the keys by index, so that a deletion shifts
\* the keys under the loop.
DeleteKeyUnderIndexLoop(m, key) ==
  LET p == IndexOf(m.ds, key)
      held == HoldsLive(m.stack, key)
      det1 == IF held THEN Append(m.det, MapGet(m.ds, key)) ELSE m.det
      st1 == IF held THEN Retarget(m.stack, key, Live, Len(det1)) ELSE m.stack
  IN IF p = 0 THEN m
     ELSE [m EXCEPT !.ds = MapDelete(m.ds, key), !.det = det1, !.stack = st1]

\* Fault: a deletion asked for while a setValue is suspended is dropped.
DeleteKeyUnlessSuspended(m, key) ==
  LET p == IndexOf(m.ds, key)
      st2 == [i \in 1..Len(m.stack) |->
                IF m.stack[i].op = "flush" /\ m.stack[i].pos >= p
                THEN [m.stack[i] EXCEPT !.pos = @ - 1]
                ELSE m.stack[i]]
  IN IF p = 0 \/ \E i \in 1..Len(m.stack) : m.stack[i].op = "setValue" THEN m
     ELSE [m EXCEPT !.ds = MapDelete(m.ds, key), !.stack = st2]

\* datastore.delete(key).  The object stays alive for the suspended setValue
\* calls that hold it; the iterators of running flush calls skip the entry.
DeleteKey(m, key) ==
  LET p == IndexOf(m.ds, key)
      held == HoldsLive(m.stack, key)
      det1 == IF held THEN Append(m.det, MapGet(m.ds, key)) ELSE m.det
      st1 == IF held THEN Retarget(m.stack, key, Live, Len(det1)) ELSE m.stack
      st2 == [i \in 1..Len(st1) |->
                IF st1[i].op = "flush" /\ st1[i].pos >= p
                THEN [st1[i] EXCEPT !.pos = @ - 1]
                ELSE st1[i]]
  IN IF p = 0 THEN m
     ELSE [m EXCEPT !.ds = MapDelete(m.ds, key), !.det = det1, !.stack = st2]

\* datastore.set(key, item) for the object `ref` after its fields were written.
StoreItem(m, key, ref, new) ==
  IF ref = Live
  THEN [m EXCEPT !.ds = MapSet(m.ds, key, new)]
  ELSE LET displaced == MapHas(m.ds, key) /\ HoldsLive(m.stack, key)
           det1 == IF displaced THEN Append(m.det, MapGet(m.ds, key)) ELSE m.det
           st1 == IF displaced THEN Retarget(m.stack, key, Live, Len(det1)) ELSE m.stack
           m1 == [m EXCEPT !.ds = MapSet(m.ds, key, new), !.det = det1, !.stack = st1]
       IN IF ref = Fresh THEN m1
          ELSE Release([m1 EXCEPT !.stack = Retarget(@, key, ref, Live)], ref)

\* ---- setValue -------------------------------------------------------------------
\* Fault: the two timestamps swapped (updatedAt ||= now, createdAt = now).
WrittenStampsSwapped(item, value, options) ==
  [value |-> value,
   protected |-> Coalesce(options.protected, defaultOptions.protected),
   onUpdate |-> IF item.onUpdate # Undefined THEN item.onUpdate
                ELSE Coalesce(options.onUpdate, defaultOptions.onUpdate),
   onDelete |-> IF item.onDelete # Undefined THEN item.onDelete
                ELSE Coalesce(options.onDelete, defaultOptions.onDelete),
   createdAt |-> now,
   updatedAt |-> IF item.updatedAt # NoTime THEN item.updatedAt ELSE now]

\* Fault: createdAt assigned on every write (createdAt = now).
WrittenRestamping(item, value, options) ==
  [value |-> value,
   protected |-> Coalesce(options.protected, defaultOptions.protected),
   onUpdate |-> IF item.onUpdate # Undefined THEN item.onUpdate
                ELSE Coalesce(options.onUpdate, defaultOptions.onUpdate),
   onDelete |-> IF item.onDelete # Undefined THEN item.onDelete
                ELSE Coalesce(options.onDelete, defaultOptions.onDelete),
   createdAt |-> now,
   updatedAt |-> now]

\* Fault: the callbacks assigned with = instead of ||= (last write wins).
WrittenLastWins(item, value, options) ==
  [value |-> value,
   protected |-> Coalesce(options.protected, defaultOptions.protected),
   onUpdate |-> Coalesce(options.onUpdate, defaultOptions.onUpdate),
   onDelete |-> Coalesce(options.onDelete, defaultOptions.onDelete),
   createdAt |-> IF item.createdAt # NoTime THEN item.createdAt ELSE now,
   updatedAt |-> now]

\* Fault: the registry not consulted for protected (options?.protected ?? false).
WrittenIgnoringDefaultProtected(item, value, options) ==
  [value |-> value,
   protected |-> Coalesce(options.protected, FALSE),
   onUpdate |-> IF item.onUpdate # Undefined THEN item.onUpdate
                ELSE Coalesce(options.onUpdate, defaultOptions.onUpdate),
   onDelete |-> IF item.onDelete # Undefined THEN item.onDelete
                ELSE Coalesce(options.onDelete, defaultOptions.onDelete),
   createdAt |-> IF item.createdAt # NoTime THEN item.createdAt ELSE now,
   updatedAt |-> now]

\* Fault: protected assigned like the callbacks, on the first write only.
WrittenProtectedOnCreation(item, value, options) ==
  [value |-> value,
   protected |-> IF item.createdAt # NoTime THEN item.protected
                 ELSE Coalesce(options.protected, defaultOptions.protected),
   onUpdate |-> IF item.onUpdate # Undefined THEN item.onUpdate
                ELSE Coalesce(options.onUpdate, defaultOptions.onUpdate),
   onDelete |-> IF item.onDelete # Undefined THEN item.onDelete
                ELSE Coalesce(options.onDelete, defaultOptions.onDelete),
   createdAt |-> IF item.createdAt # NoTime THEN item.createdAt ELSE now,
   updatedAt |-> now]

\* Fault: a callback given in the options replaces the attached one
\* (options?.onUpdate ?? item.onUpdate ?? defaultOptions.onUpdate).
WrittenPreferringOption(item, value, options) ==
  [value |-> value,
   protected |-> Coalesce(options.protected, defaultOptions.protected),
   onUpdate |-> IF options.onUpdate # <<>> THEN options.onUpdate[1]
                ELSE IF item.onUpdate # Undefined THEN item.onUpdate
                ELSE defaultOptions.onUpdate,
   onDelete |-> IF options.onDelete # <<>> THEN options.onDelete[1]
                ELSE IF item.onDelete # Undefined THEN item.onDelete
                ELSE defaultOptions.onDelete,
   createdAt |-> IF item.createdAt # NoTime THEN item.createdAt ELSE now,
   updatedAt |-> now]

\* Fault: protection merged with the prior flag instead of recomputed.
WrittenKeepingProtection(item, value, options) ==
  [value |-> value,
   protected |-> item.protected \/ Coalesce(options.protected, defaultOptions.protected),
   onUpdate |-> IF item.onUpdate # Undefined THEN item.onUpdate
                ELSE Coalesce(options.onUpdate, defaultOptions.onUpdate),
   onDelete |-> IF item.onDelete # Undefined THEN item.onDelete
                ELSE Coalesce(options.onDelete, defaultOptions.onDelete),
   createdAt |-> IF item.createdAt # NoTime THEN item.createdAt ELSE now,
   updatedAt |-> now]

\* Lines 235-242: the fields of `item` after the write.
Written(item, value, options) ==
  [value |-> value,
   protected |-> Coalesce(options.protected, defaultOptions.protected),
   onUpdate |-> IF item.onUpdate # Undefined THEN item.onUpdate
                ELSE Coalesce(options.onUpdate, defaultOptions.onUpdate),
   onDelete |-> IF item.onDelete # Undefined THEN item.onDelete
                ELSE Coalesce(options.onDelete, defaultOptions.onDelete),
   createdAt |-> IF item.createdAt # NoTime THEN item.createdAt ELSE now,
   updatedAt |-> now]

\* Fault: the force flag read the wrong way round.
\* Fault: the default protected guards keys that have no entry yet.
RejectedByDefault(item, force) == (item.protected \/ defaultOptions.protected) /\ ~force

RejectedWhenForced(item, force) == item.protected /\ force

\* Line 227: the protection check.
Rejected(item, force) == item.protected /\ ~force

\* Fault: the silent option not consulted.
NotifiesUpdateAlways(item, silent) == item.onUpdate # Undefined

\* Line 231: the onUpdate callback is due.
NotifiesUpdate(item, silent) == item.onUpdate # Undefined /\ ~silent

\* Fault: the item read again after the callback (a second getStorageItem(key)
\* || {}) instead of the object held since line 223.
setValueWriteRereading(m, key, value, options, ref) ==
  LET present == MapHas(m.ds, key)
      item == IF present THEN MapGet(m.ds, key) ELSE EmptyItem
  IN Return(StoreItem(m, key, IF present THEN Live ELSE Fresh,
                      Written(item, value, options)), "setValue", value)

\* Lines 235-246, run at once or after the onUpdate callback has returned.
setValueWrite(m, key, value, options, ref) ==
  LET item == IF ref = Fresh THEN EmptyItem ELSE Deref(m, key, ref)
  IN Return(StoreItem(m, key, ref, Written(item, value, options)), "setValue", value)

\* Fault: force resolved with || instead of ??, so that an explicit false does
\* not override a default of true.
setValueForceOr(m, key, value, options) ==
  LET present == MapHas(m.ds, key)
      item == IF present THEN MapGet(m.ds, key) ELSE EmptyItem
      force == Coalesce(options.force, FALSE) \/ defaultOptions.force
      silent == Coalesce(options.silent, defaultOptions.silent)
  IN IF Rejected(item, force)
     THEN Return(m, "setValue", item.value)
     ELSE IF NotifiesUpdate(item, silent)
     THEN Invoke(m, [op |-> "setValue", key |-> key, value |-> value,
                     options |-> options, item |-> Live],
                 "onUpdate", item.onUpdate, key, value, item.value)
     ELSE setValueWrite(m, key, value, options, IF present THEN Live ELSE Fresh)

\* Fault: the item written before the onUpdate callback is called.
setValueWritingFirst(m, key, value, options) ==
  LET present == MapHas(m.ds, key)
      item == IF present THEN MapGet(m.ds, key) ELSE EmptyItem
      force == Coalesce(options.force, defaultOptions.force)
      silent == Coalesce(options.silent, defaultOptions.silent)
  IN IF Rejected(item, force)
     THEN Return(m, "setValue", item.value)
     ELSE IF NotifiesUpdate(item, silent)
     THEN Invoke(StoreItem(m, key, Live, Written(item, value, options)),
                 [op |-> "setValue", key |-> key, value |-> value,
                  options |-> options, item |-> Live],
                 "onUpdate", item.onUpdate, key, value, item.value)
     ELSE setValueWrite(m, key, value, options, IF present THEN Live ELSE Fresh)

\* Fault: the callbacks attached (lines 237-238) before line 231 looks for the
\* one to call.
setValueAttachingFirst(m, key, value, options) ==
  LET present == MapHas(m.ds, key)
      item == IF present THEN MapGet(m.ds, key) ELSE EmptyItem
      force == Coalesce(options.force, defaultOptions.force)
      silent == Coalesce(options.silent, defaultOptions.silent)
      onUpdate == IF item.onUpdate # Undefined THEN item.onUpdate
                  ELSE Coalesce(options.onUpdate, defaultOptions.onUpdate)
      ref == IF present THEN Live ELSE Fresh
  IN IF Rejected(item, force)
     THEN Return(m, "setValue", item.value)
     ELSE IF NotifiesUpdate([item EXCEPT !.onUpdate = onUpdate], silent)
     THEN Invoke(m, [op |-> "setValue", key |-> key, value |-> value,
                     options |-> options, item |-> ref],
                 "onUpdate", onUpdate, key, value, item.value)
     ELSE setValueWrite(m, key, value, options, ref)

\* Lines 223-233, up to the callback (if any).
setValue(m, key, value, options) ==
  LET present == MapHas(m.ds, key)
      item == IF present THEN MapGet(m.ds, key) ELSE EmptyItem
      force == Coalesce(options.force, defaultOptions.force)
      silent == Coalesce(options.silent, defaultOptions.silent)
  IN IF Rejected(item, force)
     THEN Return(m, "setValue", item.value)
     ELSE IF NotifiesUpdate(item, silent)
     THEN Invoke(m, [op |-> "setValue", key |-> key, value |-> value,
                     options |-> options, item |-> Live],
                 "onUpdate", item.onUpdate, key, value, item.value)
     ELSE setValueWrite(m, key, value, options, IF present THEN Live ELSE Fresh)

\* ---- unsetValue and flush -------------------------------------------------------
\* Line 349: the onDelete callback is due.
NotifiesDelete(item, silent) == ~silent /\ item.onDelete # Undefined

\* Fault: the entry deleted before the onDelete callback is called.
unsetValueDeletingFirst(m, key, options) ==
  LET item == MapGet(m.ds, key)
      silent == Coalesce(options.silent, defaultOptions.silent)
  IN IF ~MapHas(m.ds, key) THEN m
     ELSE IF NotifiesDelete(item, silent)
     THEN Invoke(DeleteKey(m, key), [op |-> "unsetValue", key |-> key],
                 "onDelete", item.onDelete, key, item.value, Undefined)
     ELSE DeleteKey(m, key)

\* Fault: removal guarded by the protection flag, as the write is.
unsetValueUnlessProtected(m, key, options) ==
  LET item == MapGet(m.ds, key)
      silent == Coalesce(options.silent, defaultOptions.silent)
  IN IF ~MapHas(m.ds, key) \/ item.protected THEN m
     ELSE IF ~silent /\ item.onDelete # Undefined
     THEN Invoke(m, [op |-> "unsetValue", key |-> key],
                 "onDelete", item.onDelete, key, item.value, Undefined)
     ELSE DeleteKey(m, key)

\* Fault: no early return for an absent key, and the default onDelete called
\* for it (item = getStorageItem(key) || {}, onDelete ?? defaultOptions.onDelete).
unsetValueNotifyingAbsent(m, key, options) ==
  LET item == IF MapHas(m.ds, key) THEN MapGet(m.ds, key)
              ELSE [EmptyItem EXCEPT !.onDelete = defaultOptions.onDelete]
      silent == Coalesce(options.silent, defaultOptions.silent)
  IN IF NotifiesDelete(item, silent)
     THEN Invoke(m, [op |-> "unsetValue", key |-> key],
                 "onDelete", item.onDelete, key, item.value, Undefined)
     ELSE DeleteKey(m, key)

\* Fault: the default onDelete used when the entry has none
\* (item.onDelete ?? defaultOptions.onDelete).
unsetValueDefaultOnDelete(m, key, options) ==
  LET item == MapGet(m.ds, key)
      silent == Coalesce(options.silent, defaultOptions.silent)
      onDelete == IF item.onDelete # Undefined THEN item.onDelete
                  ELSE defaultOptions.onDelete
  IN IF ~MapHas(m.ds, key) THEN m
     ELSE IF NotifiesDelete([item EXCEPT !.onDelete = onDelete], silent)
     THEN Invoke(m, [op |-> "unsetValue", key |-> key],
                 "onDelete", onDelete, key, item.value, Undefined)
     ELSE DeleteKey(m, key)

\* Fault: an entry without a callback to call emptied instead of deleted
\* (item.value = undefined in place of datastore.delete(key)).
unsetValueClearingValue(m, key, options) ==
  LET item == MapGet(m.ds, key)
      silent == Coalesce(options.silent, defaultOptions.silent)
  IN IF ~MapHas(m.ds, key) THEN m
     ELSE IF NotifiesDelete(item, silent)
     THEN Invoke(m, [op |-> "unsetValue", key |-> key],
                 "onDelete", item.onDelete, key, item.value, Undefined)
     ELSE StoreItem(m, key, Live, [item EXCEPT !.value = Undefined])

\* Lines 341-353: unsetValue up to its callback (if any), or to its end.
unsetValue(m, key, options) ==
  LET item == MapGet(m.ds, key)
      silent == Coalesce(options.silent, defaultOptions.silent)
  IN IF ~MapHas(m.ds, key) THEN m
     ELSE IF NotifiesDelete(item, silent)
     THEN Invoke(m, [op |-> "unsetValue", key |-> key],
                 "onDelete", item.onDelete, key, item.value, Undefined)
     ELSE DeleteKey(m, key)

Suspended(before, after) == Len(after.stack) > Len(before.stack)

\* Fault: the loop runs over a copy of the keys taken when flush was called
\* (Array.from(datastore.keys())), so that it never sees a key added since.
RECURSIVE flushLoopOverCopy(_)
flushLoopOverCopy(m) ==
  LET f == Top(m.stack)
      mine(n) == /\ m.hist[n].ev = "call"
                 /\ m.hist[n].op = "flush"
                 /\ m.hist[n].depth = Depth(m.stack)
      called == CHOOSE n \in 1..Len(m.hist) :
                  mine(n) /\ \A n2 \in (n + 1)..Len(m.hist) : ~mine(n2)
      copy == m.hist[called].ds
      key == copy[f.pos + 1].key
      m1 == [m EXCEPT !.stack[Len(m.stack)].pos = f.pos + 1]
      m2 == unsetValue(m1, key, f.options)
  IN IF f.pos >= Len(copy)
     THEN Return([m EXCEPT !.stack = Pop(m.stack, 1)], "flush", Undefined)
     ELSE IF Suspended(m1, m2) THEN m2
     ELSE flushLoopOverCopy(m2)

\* Lines 379-381: the loop over datastore.keys(), from the iterator's position
\* to the next callback or to the end.  The flush frame is on top of the stack.
RECURSIVE flushLoop(_)
flushLoop(m) ==
  LET f == Top(m.stack)
      key == m.ds[f.pos + 1].key
      m1 == [m EXCEPT !.stack[Len(m.stack)].pos = f.pos + 1]
      m2 == unsetValue(m1, key, f.options)
  IN IF f.pos >= Len(m.ds)
     THEN Return([m EXCEPT !.stack = Pop(m.stack, 1)], "flush", Undefined)
     ELSE IF Suspended(m1, m2) THEN m2
     ELSE flushLoop(m2)

flush(m, options) ==
  flushLoop([m EXCEPT !.stack = Append(@, [op |-> "flush", options |-> options, pos |-> 0])])

\* ---- a callback returns ---------------------------------------------------------
\* The callback on top of the stack returns: the operation under it goes on from
\* the line after the call (setValue line 235, unsetValue line 353), and a flush
\* that called this unsetValue takes its next key.
\* Fault: after the onDelete callback the entry is deleted only if it still has
\* the value the callback was given.
resumeUnlessRewritten(m) ==
  LET g == m.stack[Len(m.stack) - 1]
      m0 == [m EXCEPT !.stack = Pop(m.stack, 2)]
      entered == CHOOSE n \in 1..Len(m.hist) :
                   /\ m.hist[n].ev = "cb"
                   /\ m.hist[n].depth = Depth(m.stack)
                   /\ \A n2 \in (n + 1)..Len(m.hist) :
                        ~(m.hist[n2].ev = "cb" /\ m.hist[n2].depth = Depth(m.stack))
      m1 == IF getValue(m0.ds, g.key) = m.hist[entered].a1
            THEN DeleteKey(m0, g.key)
            ELSE m0
  IN IF g.op = "setValue"
     THEN setValueWrite(m0, g.key, g.value, g.options, g.item)
     ELSE IF m1.stack # <<>> /\ Top(m1.stack).op = "flush"
     THEN flushLoop(m1)
     ELSE Return(m1, "unsetValue", Undefined)

resume(m) ==
  LET g == m.stack[Len(m.stack) - 1]
      m0 == [m EXCEPT !.stack = Pop(m.stack, 2)]
      m1 == DeleteKey(m0, g.key)
  IN IF g.op = "setValue"
     THEN setValueWrite(m0, g.key, g.value, g.options, g.item)
     ELSE IF m1.stack # <<>> /\ Top(m1.stack).op = "flush"
     THEN flushLoop(m1)
     ELSE Return(m1, "unsetValue", Undefined)

\* ---- actions --------------------------------------------------------------------
Init ==
  /\ datastore = <<>>
  /\ defaultOptions = initialDefaultOptions
  /\ now = 0
  /\ stack = <<>>
  /\ detached = <<>>
  /\ hist = <<>>
  /\ opsLeft = MaxOps

\* The same start for the runs of straight-line client code.
InitSeq ==
  /\ datastore = <<>>
  /\ defaultOptions = initialDefaultOptions
  /\ now = 0
  /\ stack = <<>>
  /\ detached = <<>>
  /\ hist = <<>>
  /\ opsLeft = MaxSeqOps

\* The same start for the runs with read operations.
InitRead ==
  /\ datastore = <<>>
  /\ defaultOptions = initialDefaultOptions
  /\ now = 0
  /\ stack = <<>>
  /\ detached = <<>>
  /\ hist = <<>>
  /\ opsLeft = MaxReadOps

\* The same start for the runs in which time passes.
InitClock ==
  /\ datastore = <<>>
  /\ defaultOptions = initialDefaultOptions
  /\ now = 0
  /\ stack = <<>>
  /\ detached = <<>>
  /\ hist = <<>>
  /\ opsLeft = MaxClockOps

Idle == stack = <<>> /\ hist = <<>>

\* A top-level operation has returned and its result has not been taken yet.
Done == stack = <<>> /\ hist # <<>>

\* A callback is running (the top of a non-empty stack is always a callback).
InCallback == stack # <<>>

\* The API may be called from the top level, or from the body of a callback.
CanCall ==
  /\ opsLeft > 0
  /\ Idle \/ (InCallback /\ Depth(stack) < MaxDepth)

Commit(m) ==
  /\ datastore' = m.ds
  /\ stack' = m.stack
  /\ detached' = m.det
  /\ hist' = m.hist

Called(op, key, value, options) ==
  [Machine EXCEPT !.hist = Append(@, CallEvent(Machine, op, key, value, options))]

\* Fault: the resolved force written back to the registry
\* (defaultOptions.force = options?.force ?? defaultOptions.force).
SetValueKeepingForce(key, value, options) ==
  /\ CanCall
  /\ Commit(setValue(Called("setValue", key, value, options), key, value, options))
  /\ opsLeft' = opsLeft - 1
  /\ defaultOptions' =
       [defaultOptions EXCEPT !.force = Coalesce(options.force, defaultOptions.force)]
  /\ UNCHANGED now

SetValue(key, value, options) ==
  /\ CanCall
  /\ Commit(setValue(Called("setValue", key, value, options), key, value, options))
  /\ opsLeft' = opsLeft - 1
  /\ UNCHANGED <<defaultOptions, now>>

UnsetValue(key, options) ==
  /\ CanCall
  /\ LET m == Called("unsetValue", key, Undefined, options)
         r == unsetValue(m, key, options)
     IN Commit(IF Suspended(m, r) THEN r ELSE Return(r, "unsetValue", Undefined))
  /\ opsLeft' = opsLeft - 1
  /\ UNCHANGED <<defaultOptions, now>>

Flush(options) ==
  /\ CanCall
  /\ Commit(flush(Called("flush", Undefined, Undefined, options), options))
  /\ opsLeft' = opsLeft - 1
  /\ UNCHANGED <<defaultOptions, now>>

DefaultValues(name) ==
  IF name \in {"onUpdate", "onDelete"} THEN Callbacks \cup {Undefined} ELSE BOOLEAN

\* Fault: the registry rebuilt from the initial snapshot
\* (defaultOptions = { ...initialDefaultOptions, [key]: value }).
setDefaultOptionFromInitial(dopt, name, value) == [initialDefaultOptions EXCEPT ![name] = value]

\* Line 433.
setDefaultOption(dopt, name, value) == [dopt EXCEPT ![name] = value]

\* Fault: the registry made the initial object itself (defaultOptions =
\* initialDefaultOptions), so that line 433 writes into the snapshot.
resetDefaultOptionsAliased(dopt) == dopt

\* Line 463.
resetDefaultOptions(dopt) == initialDefaultOptions

SetDefaultOption(name, value) ==
  /\ CanCall
  /\ defaultOptions' = setDefaultOption(defaultOptions, name, value)
  /\ hist' = hist \o << CallEvent(Machine, "setDefaultOption", name, value, NoOptions),
                        ReturnEvent(Machine, "setDefaultOption", Undefined) >>
  /\ opsLeft' = opsLeft - 1
  /\ UNCHANGED <<datastore, now, stack, detached>>

\* Fault: the reset also puts the initial protection on the stored entries.
ResetDefaultOptionsAndEntries ==
  /\ CanCall
  /\ defaultOptions' = resetDefaultOptions(defaultOptions)
  /\ datastore' = [n \in 1..Len(datastore) |->
                     [datastore[n] EXCEPT !.item.protected = initialDefaultOptions.protected]]
  /\ hist' = hist \o << CallEvent(Machine, "resetDefaultOptions", Undefined, Undefined, NoOptions),
                        ReturnEvent(Machine, "resetDefaultOptions", Undefined) >>
  /\ opsLeft' = opsLeft - 1
  /\ UNCHANGED <<now, stack, detached>>

ResetDefaultOptions ==
  /\ CanCall
  /\ defaultOptions' = resetDefaultOptions(defaultOptions)
  /\ hist' = hist \o << CallEvent(Machine, "resetDefaultOptions", Undefined, Undefined, NoOptions),
                        ReturnEvent(Machine, "resetDefaultOptions", Undefined) >>
  /\ opsLeft' = opsLeft - 1
  /\ UNCHANGED <<datastore, now, stack, detached>>

\* Fault: a read that consumes the entry it reads.
ReadAndEvict(op, key, val) ==
  /\ CanCall
  /\ Commit(Return(DeleteKey(Called(op, key, Undefined, NoOptions), key), op, val))
  /\ opsLeft' = opsLeft - 1
  /\ UNCHANGED <<defaultOptions, now>>

\* A read operation: it returns `val` and assigns nothing.
Read(op, key, val) ==
  /\ CanCall
  /\ Commit(Return(Called(op, key, Undefined, NoOptions), op, val))
  /\ opsLeft' = opsLeft - 1
  /\ UNCHANGED <<defaultOptions, now>>

GetValue(key) == Read("getValue", key, getValue(datastore, key))

GetMetadata(key) == Read("getMetadata", key, getMetadata(datastore, key))

IsSet(key) == Read("isSet", key, isSet(datastore, key))

IsProtected(key) == Read("isProtected", key, isProtected(datastore, key))

GetAllValues == Read("getAllValues", Undefined, getAllValues(datastore))

GetAllMetadata == Read("getAllMetadata", Undefined, getAllMetadata(datastore))

GetDefaultOptions == Read("getDefaultOptions", Undefined, getDefaultOptions(defaultOptions))

\* The caller assigns a field of the object its getDefaultOptions call has just
\* returned (hist[2].val).  The registry changes iff that object is the registry's.
WriteReturned(name, value) ==
  /\ Done
  /\ opsLeft > 0
  /\ hist[1].op = "getDefaultOptions"
  /\ hist' = Append([hist EXCEPT ![2].val.fields[name] = value],
                    [ev |-> "write", op |-> "assign", key |-> name, value |-> value,
                     depth |-> 0])
  /\ defaultOptions' = IF hist[2].val.registry
                       THEN [defaultOptions EXCEPT ![name] = value]
                       ELSE defaultOptions
  /\ opsLeft' = opsLeft - 1
  /\ UNCHANGED <<datastore, now, stack, detached>>

\* The running callback returns to the operation that invoked it.
CallbackReturn ==
  /\ InCallback
  /\ Commit(resume(Machine))
  /\ UNCHANGED <<defaultOptions, now, opsLeft>>

\* The caller takes the result of the finished top-level operation.
Ack ==
  /\ Done
  /\ hist' = <<>>
  /\ UNCHANGED <<datastore, defaultOptions, now, stack, detached, opsLeft>>

\* Time passes, between two calls or while a callback runs.
Tick ==
  /\ ~Done
  /\ now < MaxTime
  /\ now' = now + 1
  /\ UNCHANGED <<datastore, defaultOptions, stack, detached, hist, opsLeft>>

Next ==
  \/ \E key \in Keys, value \in Values, options \in SetOptions : SetValue(key, value, options)
  \/ \E key \in Keys, options \in UnsetOptions : UnsetValue(key, options)
  \/ \E options \in FlushOptions : Flush(options)
  \/ \E name \in DOMAIN initialDefaultOptions :
       \E value \in DefaultValues(name) : SetDefaultOption(name, value)
  \/ ResetDefaultOptions
  \/ CallbackReturn
  \/ Ack

\* The timestamps decide nothing in the code (a Date is only stored): the runs
\* with re-entrant callbacks keep the clock stopped, and the runs in which the
\* clock moves call the API from the top level only.
Spec == Init /\ [][Next]_vars

\* Straight-line client code: the callbacks call nothing, the clock is stopped.
NextSeq == (Idle /\ Next) \/ CallbackReturn \/ Ack

SpecSeq == InitSeq /\ [][NextSeq]_vars

\* Client code that also reads, and assigns to what getDefaultOptions returned.
Reads ==
  \/ \E key \in Keys : GetValue(key)
  \/ \E key \in Keys : GetMetadata(key)
  \/ \E key \in Keys : IsSet(key)
  \/ \E key \in Keys : IsProtected(key)
  \/ GetAllValues
  \/ GetAllMetadata
  \/ GetDefaultOptions

NextRead ==
  \/ Idle /\ (Next \/ Reads)
  \/ CallbackReturn
  \/ Ack
  \/ \E name \in DOMAIN initialDefaultOptions :
       \E value \in DefaultValues(name) : WriteReturned(name, value)

SpecRead == InitRead /\ [][NextRead]_vars

\* The example "Get and set values" of the README, run as the client program
\* it is: seven calls in a row, on any key and with any values, while the
\* clock runs.  None of its calls reaches a callback.
ReadmeCalls == 7

updateCallback == "cb1"

InitReadme ==
  /\ datastore = <<>>
  /\ defaultOptions = initialDefaultOptions
  /\ now = 0
  /\ stack = <<>>
  /\ detached = <<>>
  /\ hist = <<>>
  /\ opsLeft = ReadmeCalls

ReadmeLine == ReadmeCalls - opsLeft + 1

ReadmeStep ==
  \/ /\ ReadmeLine = 1
     /\ \E key \in Keys, value \in Values :
          SetValue(key, value, OnlyOption("protected", TRUE))
  \/ /\ ReadmeLine \in {2, 4, 6}
     /\ GetValue(datastore[1].key)
  \/ /\ ReadmeLine = 3
     /\ \E value \in Values :
          SetValue(datastore[1].key, value, OnlyOption("onUpdate", updateCallback))
  \/ /\ ReadmeLine = 5
     /\ \E value \in Values :
          SetValue(datastore[1].key, value, OnlyOption("force", TRUE))
  \/ /\ ReadmeLine = 7
     /\ GetMetadata(datastore[1].key)

NextReadme == (Idle /\ ReadmeStep) \/ Ack \/ Tick

SpecReadme == InitReadme /\ [][NextReadme]_vars

\* Client code that removes a key and sets it again: any calls first, then
\* unsetValue(removedKey) or flush(), then setValue(removedKey, ...), while the
\* clock runs.  The callbacks call nothing.
MaxRemovalOps == 4

removedKey == "k1"

InitRemoval ==
  /\ datastore = <<>>
  /\ defaultOptions = initialDefaultOptions
  /\ now = 0
  /\ stack = <<>>
  /\ detached = <<>>
  /\ hist = <<>>
  /\ opsLeft = MaxRemovalOps

RemovalStep ==
  \/ /\ opsLeft > 2
     /\ Next
  \/ /\ opsLeft = 2
     /\ \/ \E options \in UnsetOptions : UnsetValue(removedKey, options)
        \/ \E options \in FlushOptions : Flush(options)
  \/ /\ opsLeft = 1
     /\ \E value \in Values, options \in SetOptions : SetValue(removedKey, value, options)

NextRemoval == (Idle /\ RemovalStep) \/ CallbackReturn \/ Ack \/ Tick

SpecRemoval == InitRemoval /\ [][NextRemoval]_vars

\* Client code whose callbacks call the API: it sets a key with an onUpdate and
\* another key with an onDelete, then makes one more call, any; the callbacks
\* that this call reaches make up to MaxNestOps calls, any.
MaxNestOps == 1

updatedKey == "k1"

deletedKey == "k2"

expiryCallback == "cb2"

firstValue == "v1"

InitNest ==
  /\ datastore = <<>>
  /\ defaultOptions = initialDefaultOptions
  /\ now = 0
  /\ stack = <<>>
  /\ detached = <<>>
  /\ hist = <<>>
  /\ opsLeft = MaxNestOps + 3

NestStep ==
  \/ /\ opsLeft = MaxNestOps + 3
     /\ SetValue(updatedKey, firstValue, OnlyOption("onUpdate", updateCallback))
  \/ /\ opsLeft = MaxNestOps + 2
     /\ SetValue(deletedKey, firstValue, OnlyOption("onDelete", expiryCallback))
  \/ /\ opsLeft = MaxNestOps + 1
     /\ Next

NextNest == (Idle /\ (NestStep \/ Tick)) \/ (InCallback /\ Next) \/ Ack

SpecNest == InitNest /\ [][NextNest]_vars

\* Client code that sets and removes keys, array-index keys among them, and
\* lists the store.
MaxOrderOps == 5

OrderKeys == Keys \cup IndexKeys

InitOrder ==
  /\ datastore = <<>>
  /\ defaultOptions = initialDefaultOptions
  /\ now = 0
  /\ stack = <<>>
  /\ detached = <<>>
  /\ hist = <<>>
  /\ opsLeft = MaxOrderOps

OrderStep ==
  \/ \E key \in OrderKeys, value \in Values : SetValue(key, value, NoOptions)
  \/ \E key \in OrderKeys : UnsetValue(key, [silent |-> <<>>])
  \/ GetAllValues
  \/ GetAllMetadata

NextOrder == (Idle /\ OrderStep) \/ Ack

SpecOrder == InitOrder /\ [][NextOrder]_vars

NextClock == (Idle /\ Next) \/ CallbackReturn \/ Ack \/ Tick

SpecClock == InitClock /\ [][NextClock]_vars

\* ---- version 2: storage.lib --------------------------------------------------------
\* The version-2 module keeps its entries in the object __storage and its
\* defaults in the object __options; they are held here in datastore and
\* defaultOptions.  Its callbacks call nothing, so that every call runs to its
\* end in one step.
MaxV2Ops == 3

\* An argument or a result that is a stored value, and one that is a whole
\* StorageItem.
Primitive(value) == [primitive |-> value]

ItemObject(item) == [object |-> item]

OptionsV2 ==
  [protected |-> FALSE, force |-> FALSE, onUpdate |-> Undefined,
   onDelete |-> Undefined, silent |-> FALSE, extended |-> FALSE]

GetOptions == [extended : Opt(BOOLEAN)]

\* What a call leaves: the storage, the callbacks it invoked, its result.
Outcome(storage, called, result) ==
  [storage |-> storage, called |-> called, result |-> result]

get(storage, key, options) ==
  LET computedExtended == Coalesce(options.extended, defaultOptions.extended)
  IN IF ~MapHas(storage, key) THEN Primitive(Undefined)
     ELSE IF computedExtended THEN ItemObject(MapGet(storage, key))
     ELSE Primitive(MapGet(storage, key).value)

set(storage, key, value, options) ==
  LET item == IF MapHas(storage, key) THEN MapGet(storage, key) ELSE EmptyItem
      computedForced == Coalesce(options.force, defaultOptions.force)
      computedSilent == Coalesce(options.silent, defaultOptions.silent)
      called == IF item.onUpdate # Undefined /\ ~computedSilent
                THEN << CallbackEvent(Machine, "onUpdate", item.onUpdate, key,
                                      Primitive(value), Primitive(item.value)) >>
                ELSE <<>>
      written ==
        [key |-> key,
         value |-> value,
         protected |-> Coalesce(options.protected, defaultOptions.protected),
         onUpdate |-> IF item.onUpdate # Undefined THEN item.onUpdate
                      ELSE Coalesce(options.onUpdate, defaultOptions.onUpdate),
         onDelete |-> IF item.onDelete # Undefined THEN item.onDelete
                      ELSE Coalesce(options.onDelete, defaultOptions.onDelete),
         createdAt |-> IF item.createdAt # NoTime THEN item.createdAt ELSE now,
         updatedAt |-> now]
  IN IF item.protected /\ ~computedForced
     THEN Outcome(storage, <<>>, Primitive(item.value))
     ELSE Outcome(MapSet(storage, key, written), called, Primitive(value))

\* Lines 111-125.  The callback is given `value`, which is __storage[key], the
\* whole item.
unset(storage, key, options) ==
  LET value == MapGet(storage, key)
      computedSilent == Coalesce(options.silent, defaultOptions.silent)
  IN IF ~MapHas(storage, key)
     THEN Outcome(storage, <<>>, Primitive(Undefined))
     ELSE Outcome(MapDelete(storage, key),
                  IF ~computedSilent /\ value.onDelete # Undefined
                  THEN << CallbackEvent(Machine, "onDelete", value.onDelete, key,
                                        ItemObject(value), Primitive(Undefined)) >>
                  ELSE <<>>,
                  Primitive(Undefined))

\* A call of the version-2 API from the top level, run to its return.
CallV2(op, key, value, options, outcome) ==
  /\ Idle
  /\ opsLeft > 0
  /\ datastore' = outcome.storage
  /\ hist' = << CallEvent(Machine, op, key, value, options) >>
             \o outcome.called
             \o << ReturnEvent(Machine, op, outcome.result) >>
  /\ opsLeft' = opsLeft - 1
  /\ UNCHANGED <<defaultOptions, now, stack, detached>>

GetV2(key, options) ==
  CallV2("get", key, Undefined, options, Outcome(datastore, <<>>, get(datastore, key, options)))

SetV2(key, value, options) ==
  CallV2("set", key, value, options, set(datastore, key, value, options))

UnsetV2(key, options) ==
  CallV2("unset", key, Undefined, options, unset(datastore, key, options))

InitV2 ==
  /\ datastore = <<>>
  /\ defaultOptions = OptionsV2
  /\ now = 0
  /\ stack = <<>>
  /\ detached = <<>>
  /\ hist = <<>>
  /\ opsLeft = MaxV2Ops

NextV2 ==
  \/ \E key \in Keys, options \in GetOptions : GetV2(key, options)
  \/ \E key \in Keys, value \in Values, options \in SetOptions : SetV2(key, value, options)
  \/ \E key \in Keys, options \in UnsetOptions : UnsetV2(key, options)
  \/ Ack

SpecV2 == InitV2 /\ [][NextV2]_vars

\* ---- version 1: index.js -----------------------------------------------------------
\* The version-1 module keeps its entries in the object DATA and its defaults
\* in the object OPTIONS; they are held here in datastore and defaultOptions.
\* The verbose option only logs and is left out.  The callbacks call nothing
\* and return nothing.
MaxV1Ops == 3

\* The default onUpdate and onDelete of OPTIONS: false, which is no function.
NotFunction == "false"

isFunction(x) == x \in Callbacks

OPTIONS ==
  [protection |-> FALSE, force |-> FALSE, silent |-> FALSE,
   onUpdate |-> NotFunction, onDelete |-> NotFunction]

NoOptionsV1 ==
  [protection |-> <<>>, force |-> <<>>, silent |-> <<>>,
   onUpdate |-> <<>>, onDelete |-> <<>>]

OnlyOptionV1(f, x) == [NoOptionsV1 EXCEPT ![f] = <<x>>]

SetOptionsV1 ==
  {NoOptionsV1}
    \cup {OnlyOptionV1(f, b) : f \in {"protection", "force", "silent"}, b \in BOOLEAN}
    \cup {OnlyOptionV1(f, cb) : f \in {"onUpdate", "onDelete"}, cb \in Callbacks}

UnsetOptionsV1 ==
  {NoOptionsV1} \cup {OnlyOptionV1(f, b) : f \in {"force", "silent"}, b \in BOOLEAN}

\* Lines 44-58.
exports_set(DATA, key, value, options) ==
  LET exists == MapHas(DATA, key)
      protection == IF exists THEN MapGet(DATA, key).protection
                    ELSE defaultOptions.protection
      forced == Coalesce(options.force, defaultOptions.force)
      silent == Coalesce(options.silent, defaultOptions.silent)
      onUpdate == IF exists /\ isFunction(MapGet(DATA, key).onUpdate)
                  THEN MapGet(DATA, key).onUpdate
                  ELSE defaultOptions.onUpdate
      entry == [value |-> value,
                protection |-> Coalesce(options.protection, defaultOptions.protection),
                force |-> forced,
                silent |-> silent,
                onUpdate |-> Coalesce(options.onUpdate, defaultOptions.onUpdate),
                onDelete |-> Coalesce(options.onDelete, defaultOptions.onDelete)]
  IN IF exists /\ protection /\ ~forced
     THEN Outcome(DATA, <<>>, Primitive(Undefined))
     ELSE IF isFunction(onUpdate) /\ ~silent
     THEN Outcome(MapSet(DATA, key, entry),
                  << CallbackEvent(Machine, "onUpdate", onUpdate, key,
                                   Primitive(value), Primitive(Undefined)) >>,
                  Primitive(Undefined))
     ELSE Outcome(MapSet(DATA, key, entry), <<>>, Primitive(value))

\* Lines 145-159.
exports_unset(DATA, key, options) ==
  LET exists == MapHas(DATA, key)
      forced == Coalesce(options.force, defaultOptions.force)
      protection == exists /\ MapGet(DATA, key).protection
      silent == Coalesce(options.silent, defaultOptions.silent)
      deleteCallback == IF exists /\ isFunction(MapGet(DATA, key).onDelete)
                        THEN MapGet(DATA, key).onDelete
                        ELSE defaultOptions.onDelete
      value == MapGet(DATA, key).value
  IN IF exists /\ (forced \/ ~protection)
     THEN IF isFunction(deleteCallback) /\ ~silent
          THEN Outcome(MapDelete(DATA, key),
                       << CallbackEvent(Machine, "onDelete", deleteCallback, key,
                                        Primitive(value), Primitive(Undefined)) >>,
                       Primitive(Undefined))
          ELSE Outcome(MapDelete(DATA, key), <<>>, Primitive(value))
     ELSE Outcome(DATA, <<>>, Primitive(Undefined))

\* Lines 94-111.  The options are read for force only.
exports_flush(DATA, options) ==
  LET forced == Coalesce(options.force, defaultOptions.force)
      deleteCallback(e) == IF isFunction(e.item.onDelete) THEN e.item.onDelete
                           ELSE defaultOptions.onDelete
      kept(e) == e.item.protection
      notified(e) == ~e.item.protection /\ isFunction(deleteCallback(e))
      told == SelectSeq(DATA, notified)
  IN IF forced
     THEN Outcome(<<>>, <<>>, Primitive(Undefined))
     ELSE Outcome(SelectSeq(DATA, kept),
                  [n \in 1..Len(told) |->
                     CallbackEvent(Machine, "onDelete", deleteCallback(told[n]),
                                   told[n].key, Primitive(told[n].item.value),
                                   Primitive(Undefined))],
                  Primitive(Undefined))

\* Lines 31-34.
exports_default(options, key, value) == [options EXCEPT ![key] = value]

\* A call of the version-1 API from the top level, run to its return.
CallV1(op, key, value, options, outcome) ==
  /\ Idle
  /\ opsLeft > 0
  /\ datastore' = outcome.storage
  /\ hist' = << CallEvent(Machine, op, key, value, options) >>
             \o outcome.called
             \o << ReturnEvent(Machine, op, outcome.result) >>
  /\ opsLeft' = opsLeft - 1
  /\ UNCHANGED <<defaultOptions, now, stack, detached>>

SetV1(key, value, options) ==
  CallV1("exports.set", key, value, options, exports_set(datastore, key, value, options))

UnsetV1(key, options) ==
  CallV1("exports.unset", key, Undefined, options, exports_unset(datastore, key, options))

FlushV1(options) ==
  CallV1("exports.flush", Undefined, Undefined, options, exports_flush(datastore, options))

DefaultValuesV1(name) ==
  IF name \in {"onUpdate", "onDelete"} THEN Callbacks \cup {NotFunction} ELSE BOOLEAN

DefaultV1(key, value) ==
  /\ Idle
  /\ opsLeft > 0
  /\ defaultOptions' = exports_default(defaultOptions, key, value)
  /\ hist' = << CallEvent(Machine, "exports.default", key, value, NoOptionsV1),
                ReturnEvent(Machine, "exports.default", Primitive(Undefined)) >>
  /\ opsLeft' = opsLeft - 1
  /\ UNCHANGED <<datastore, now, stack, detached>>

InitV1 ==
  /\ datastore = <<>>
  /\ defaultOptions = OPTIONS
  /\ now = 0
  /\ stack = <<>>
  /\ detached = <<>>
  /\ hist = <<>>
  /\ opsLeft = MaxV1Ops

NextV1 ==
  \/ \E key \in Keys, value \in Values, options \in SetOptionsV1 : SetV1(key, value, options)
  \/ \E key \in Keys, options \in UnsetOptionsV1 : UnsetV1(key, options)
  \/ \E options \in UnsetOptionsV1 : FlushV1(options)
  \/ \E name \in DOMAIN OPTIONS : \E value \in DefaultValuesV1(name) : DefaultV1(name, value)
  \/ Ack

SpecV1 == InitV1 /\ [][NextV1]_vars

\* ---- reading the events of an operation -----------------------------------------
Last(s) == s[Len(s)]

\* The operation `op` has just returned, to the top level or to a callback body.
JustReturned(op) == hist # <<>> /\ Last(hist).ev = "ret" /\ Last(hist).op = op

\* The call event of the operation that has just returned.
RECURSIVE LastCallAt(_, _)
LastCallAt(i, depth) ==
  IF hist[i].ev = "call" /\ hist[i].depth = depth THEN i ELSE LastCallAt(i - 1, depth)

CallIndex == LastCallAt(Len(hist), Last(hist).depth)

TheCall == hist[CallIndex]

\* The Map when the operation was called.
Before == TheCall.ds

\* What the operation returned.
Result == Last(hist).val

\* options.f ?? defaults.f for the call event c, with the defaults as they
\* were at the call.
EffectiveOf(c, f) == Coalesce(c.options[f], c.dopt[f])

EffectiveAtCall(f) == EffectiveOf(TheCall, f)

\* The call c is a setValue that line 229 turns away.
RejectedCall(c) ==
  /\ MapHas(c.ds, c.key)
  /\ MapGet(c.ds, c.key).protected
  /\ ~EffectiveOf(c, "force")

\* The callbacks invoked by the operation called at hist[i], in order.
CallbacksOf(i) ==
  LET own(e) == e.ev = "cb" /\ e.depth = hist[i].depth + 1
  IN SelectSeq(SubSeq(hist, i + 1, Len(hist) - 1), own)

OwnCallbacks == CallbacksOf(CallIndex)

\* The API calls made by callbacks while the operation called at hist[i] ran.
NestedCallsOf(i) ==
  LET call(e) == e.ev = "call"
  IN SelectSeq(SubSeq(hist, i + 1, Len(hist) - 1), call)

NestedCalls == NestedCallsOf(CallIndex)

\* ---- C1 ---------------------------------------------------------------------------
\* C1: a setValue on a protected entry whose effective force is false returns
\* the stored value, leaves the Map as it was (value, protected, callbacks,
\* createdAt, updatedAt of the key and everything else) and invokes no callback.
C1_RejectedWriteChangesNothing ==
  JustReturned("setValue")
  => LET i == CallIndex
         c == hist[i]
     IN RejectedCall(c)
        => /\ Result = MapGet(c.ds, c.key).value
           /\ datastore = c.ds
           /\ CallbacksOf(i) = <<>>
           /\ i = Len(hist) - 1

\* A rejected write of another value, issued after the clock has moved on.
C1_Witness ==
  /\ JustReturned("setValue")
  /\ MapHas(Before, TheCall.key)
  /\ MapGet(Before, TheCall.key).protected
  /\ ~EffectiveAtCall("force")
  /\ TheCall.value # MapGet(Before, TheCall.key).value
  /\ MapGet(Before, TheCall.key).onUpdate # Undefined
  /\ now > MapGet(Before, TheCall.key).updatedAt

\* ---- C2 ---------------------------------------------------------------------------
ForcedOverwrite(k) ==
  /\ JustReturned("setValue")
  /\ TheCall.key = k
  /\ TheCall.options = OnlyOption("force", TRUE)
  /\ MapHas(Before, k)
  /\ MapGet(Before, k).protected
  /\ MapGet(Before, k).value # TheCall.value

\* C2 as stated: setValue(k, v2, {force: true}) on the protected entry holding
\* v1 returns v2, leaves getValue(k) = v2 and the protected flag false.
C2_AsStated ==
  \A k \in Keys :
    ForcedOverwrite(k)
    => /\ Result = TheCall.value
       /\ getValue(datastore, k) = TheCall.value
       /\ ~isProtected(datastore, k)

\* C2 amended: the forced overwrite returns v2, leaves getValue(k) = v2, and the
\* protected flag becomes the default protected option (false unless the
\* default was set to true).
C2_ForcedOverwrite ==
  JustReturned("setValue")
  => LET c == TheCall
         k == c.key
     IN ( /\ c.options = OnlyOption("force", TRUE)
          /\ MapHas(c.ds, k)
          /\ MapGet(c.ds, k).protected
          /\ MapGet(c.ds, k).value # c.value )
        => /\ Result = c.value
           /\ getValue(datastore, k) = c.value
           /\ isProtected(datastore, k) = defaultOptions.protected

C2_Witness ==
  \E k \in Keys :
    /\ ForcedOverwrite(k)
    /\ Done
    /\ ~defaultOptions.protected
    /\ ~isProtected(datastore, k)
    /\ getValue(datastore, k) = TheCall.value

\* ---- C3 ---------------------------------------------------------------------------
\* C3: unsetValue removes a protected entry whatever the options and defaults.
C3_ProtectionNeverBlocksRemoval ==
  JustReturned("unsetValue")
  => LET c == TheCall
     IN (MapHas(c.ds, c.key) /\ MapGet(c.ds, c.key).protected)
        => ~isSet(datastore, c.key)

C3_Witness ==
  /\ JustReturned("unsetValue")
  /\ MapHas(Before, TheCall.key)
  /\ MapGet(Before, TheCall.key).protected
  /\ ~TheCall.dopt.force
  /\ ~isSet(datastore, TheCall.key)

\* ---- C4 ---------------------------------------------------------------------------
\* A setValue on an existing entry that passed the protection check.
Overwrite(k) ==
  /\ JustReturned("setValue")
  /\ TheCall.key = k
  /\ MapHas(Before, k)
  /\ ~(MapGet(Before, k).protected /\ ~EffectiveAtCall("force"))

IsCallback(e, kind, cb, key, a1, a2) ==
  /\ e.ev = "cb"
  /\ e.kind = kind
  /\ e.cb = cb
  /\ e.key = key
  /\ e.a1 = a1
  /\ e.a2 = a2

\* C4: an overwrite of an entry that has an onUpdate attached invokes it exactly
\* once with (k, v, previous value) when the effective silent is false, also
\* when v is the previous value; when it is true the callback is not invoked
\* and the value is overwritten with v all the same.
C4_OnUpdateOncePerOverwrite ==
  JustReturned("setValue")
  => LET i == CallIndex
         c == hist[i]
         k == c.key
         old == MapGet(c.ds, k)
         cbs == CallbacksOf(i)
     IN (MapHas(c.ds, k) /\ ~RejectedCall(c) /\ old.onUpdate # Undefined)
        => IF EffectiveOf(c, "silent")
           THEN cbs = <<>> /\ getValue(datastore, k) = c.value
           ELSE /\ Len(cbs) = 1
                /\ IsCallback(cbs[1], "onUpdate", old.onUpdate, k, c.value, old.value)

\* The callback invoked by an overwrite with the value the entry already held.
C4_Witness ==
  \E k \in Keys :
    /\ Done
    /\ Overwrite(k)
    /\ MapGet(Before, k).onUpdate # Undefined
    /\ ~EffectiveAtCall("silent")
    /\ TheCall.value = MapGet(Before, k).value
    /\ Len(OwnCallbacks) = 1

\* ---- C5 ---------------------------------------------------------------------------
\* An onUpdate callback has been entered and has not called the API yet.
EnteredOnUpdate == InCallback /\ Last(hist).ev = "cb" /\ Last(hist).kind = "onUpdate"

\* C5: while the onUpdate callback runs the entry is still the prior one (value,
\* protected, updatedAt); the overwrite follows the callback's return.
C5_OnUpdateBeforeMutation ==
  /\ EnteredOnUpdate
     => LET c == hist[Len(hist) - 1]
            k == Last(hist).key
        IN /\ c.ev = "call" /\ c.op = "setValue" /\ c.key = k
           /\ datastore = c.ds
           /\ getValue(datastore, k) = Last(hist).a2
           /\ MapGet(datastore, k).protected = MapGet(c.ds, k).protected
           /\ MapGet(datastore, k).updatedAt = MapGet(c.ds, k).updatedAt
  /\ JustReturned("setValue")
     => LET i == CallIndex
            c == hist[i]
            new == MapGet(datastore, c.key)
        IN CallbacksOf(i) # <<>>
           => /\ new.value = c.value
              /\ new.updatedAt = now
              /\ new.protected = Coalesce(c.options.protected, defaultOptions.protected)

\* Inside the callback of an overwrite with another value and another
\* protection, after the clock has moved on.
C5_Witness ==
  /\ EnteredOnUpdate
  /\ Last(hist).a1 # Last(hist).a2
  /\ getValue(datastore, Last(hist).key) = Last(hist).a2
  /\ hist[Len(hist) - 1].options.protected = <<TRUE>>
  /\ ~isProtected(datastore, Last(hist).key)
  /\ now > MapGet(datastore, Last(hist).key).updatedAt

\* ---- C6 ---------------------------------------------------------------------------
\* C6: a successful setValue that omits onUpdate (onDelete) leaves the attached
\* onUpdate (onDelete) attached, and the attached onUpdate is the one a
\* non-silent update invokes.
C6_CallbackPersistence ==
  JustReturned("setValue")
  => LET i == CallIndex
         c == hist[i]
         k == c.key
         old == MapGet(c.ds, k)
         cbs == CallbacksOf(i)
     IN (MapHas(c.ds, k) /\ ~RejectedCall(c))
        => /\ (old.onUpdate # Undefined /\ c.options.onUpdate = <<>>)
              => /\ isSet(datastore, k)
                 /\ MapGet(datastore, k).onUpdate = old.onUpdate
                 /\ ~EffectiveOf(c, "silent")
                    => (cbs # <<>> /\ cbs[1].cb = old.onUpdate)
           /\ (old.onDelete # Undefined /\ c.options.onDelete = <<>>)
              => /\ isSet(datastore, k)
                 /\ MapGet(datastore, k).onDelete = old.onDelete

\* The third setValue on a key: the first attached the callback, the second
\* protected the entry without naming a callback, the third fires the callback.
C6_Witness ==
  \E k \in Keys :
    /\ Done
    /\ opsLeft = 0
    /\ Overwrite(k)
    /\ TheCall.dopt = initialDefaultOptions
    /\ TheCall.options = OnlyOption("force", TRUE)
    /\ MapGet(Before, k).protected
    /\ MapGet(Before, k).onUpdate # Undefined
    /\ Len(OwnCallbacks) = 1
    /\ OwnCallbacks[1].cb = MapGet(Before, k).onUpdate
    /\ MapGet(datastore, k).onUpdate = MapGet(Before, k).onUpdate

\* ---- C7 ---------------------------------------------------------------------------
\* An onDelete callback has been entered and has not called the API yet.
EnteredOnDelete == InCallback /\ Last(hist).ev = "cb" /\ Last(hist).kind = "onDelete"

\* C7: unsetValue on an entry with an onDelete attached invokes it exactly once
\* with (k, current value) when the effective silent is false and not at all
\* when it is true; the callback is entered with the key still present and
\* holding that value; k is absent when unsetValue returns.
C7_OnDeleteBeforeRemoval ==
  /\ JustReturned("unsetValue")
     => LET i == CallIndex
            c == hist[i]
            k == c.key
            old == MapGet(c.ds, k)
            cbs == CallbacksOf(i)
        IN /\ ~isSet(datastore, k)
           /\ getValue(datastore, k) = Undefined
           /\ (MapHas(c.ds, k) /\ old.onDelete # Undefined)
              => IF EffectiveOf(c, "silent")
                 THEN cbs = <<>>
                 ELSE /\ Len(cbs) = 1
                      /\ IsCallback(cbs[1], "onDelete", old.onDelete, k, old.value, Undefined)
  /\ EnteredOnDelete
     => /\ isSet(datastore, Last(hist).key)
        /\ getValue(datastore, Last(hist).key) = Last(hist).a1

\* Inside the onDelete callback of an unsetValue call, the key still present.
C7_Witness ==
  /\ EnteredOnDelete
  /\ hist[Len(hist) - 1].ev = "call"
  /\ hist[Len(hist) - 1].op = "unsetValue"
  /\ hist[Len(hist) - 1].key = Last(hist).key
  /\ isSet(datastore, Last(hist).key)
  /\ getValue(datastore, Last(hist).key) = Last(hist).a1

\* ---- C8 ---------------------------------------------------------------------------
\* The events of `s` that satisfy Test.
Count(s, Test(_)) == Len(SelectSeq(s, Test))

\* A call that changes the Map.
MutatesStore(e) == e.ev = "call" /\ e.op \in {"setValue", "unsetValue", "flush"}

\* A flush has returned during which no callback called setValue, unsetValue
\* or flush.
QuietFlush ==
  /\ JustReturned("flush")
  /\ Count(NestedCalls, MutatesStore) = 0

\* C8: when no callback mutates the store, flush leaves the Map empty, protected
\* entries included; each entry with an onDelete has it invoked exactly once
\* with (key, value) when silent is false for the whole flush, entries without
\* one raise no callback, and flush({silent: true}) invokes none, nor does a
\* flush under a default silent that stays true.
C8_FlushRemovesEverything ==
  JustReturned("flush")
  => LET i == CallIndex
         c == hist[i]
         cbs == CallbacksOf(i)
         nested == NestedCallsOf(i)
         silent == EffectiveOf(c, "silent")
         audible == c.options.silent = <<FALSE>> \/ (nested = <<>> /\ ~silent)
         of(k) == LET forKey(e) == e.key = k IN SelectSeq(cbs, forKey)
     IN Count(nested, MutatesStore) = 0
        => /\ datastore = <<>>
           /\ c.options.silent = <<TRUE>> => cbs = <<>>
           /\ (nested = <<>> /\ silent) => cbs = <<>>
           /\ \A n \in 1..Len(cbs) :
                cbs[n].kind = "onDelete" /\ MapHas(c.ds, cbs[n].key)
           /\ \A k \in Keys :
                MapHas(c.ds, k)
                => LET old == MapGet(c.ds, k)
                   IN /\ old.onDelete = Undefined => of(k) = <<>>
                      /\ Len(of(k)) <= 1
                      /\ (old.onDelete # Undefined /\ audible)
                         => /\ Len(of(k)) = 1
                            /\ IsCallback(of(k)[1], "onDelete", old.onDelete,
                                          k, old.value, Undefined)

\* A flush of two entries, the first with an onDelete, the second protected
\* and without one: one callback, nothing left.
C8_Witness ==
  /\ QuietFlush
  /\ Done
  /\ Len(Before) = 2
  /\ Before[1].item.onDelete # Undefined
  /\ Before[2].item.protected
  /\ Before[2].item.onDelete = Undefined
  /\ Len(OwnCallbacks) = 1
  /\ datastore = <<>>

\* ---- C9 ---------------------------------------------------------------------------
\* setValue(k, v) or unsetValue(k), without options, has returned.
Plain(op, k) ==
  /\ JustReturned(op)
  /\ TheCall.key = k
  /\ TheCall.options = (IF op = "setValue" THEN NoOptions ELSE [silent |-> <<>>])

\* C9 as stated: after any setValue(k, v) the key is set and holds v, and after
\* any unsetValue(k) it holds nothing.
C9_AsStated ==
  \A k \in Keys :
    /\ Plain("setValue", k)
       => (getValue(datastore, k) = TheCall.value /\ isSet(datastore, k))
    /\ Plain("unsetValue", k)
       => (getValue(datastore, k) = Undefined /\ ~isSet(datastore, k))

\* C9 amended: after a setValue(k, v) that is not rejected (k absent, or not
\* protected, or the effective force true) the key is set and holds v; after
\* any unsetValue(k) it holds nothing.
C9_RoundTrip ==
  /\ JustReturned("setValue")
     => LET c == TheCall
        IN ~RejectedCall(c)
           => /\ getValue(datastore, c.key) = c.value
              /\ isSet(datastore, c.key)
              /\ Result = c.value
  /\ JustReturned("unsetValue")
     => LET k == TheCall.key
        IN getValue(datastore, k) = Undefined /\ ~isSet(datastore, k)

\* The round trip done: unsetValue(k) has returned for a key that was set.
C9_Witness ==
  \E k \in Keys :
    /\ Done
    /\ Plain("unsetValue", k)
    /\ MapHas(Before, k)
    /\ getValue(Before, k) \in Values
    /\ ~isSet(datastore, k)
    /\ getValue(datastore, k) = Undefined

\* ---- C10 --------------------------------------------------------------------------
\* A setValue that names none of protected, onUpdate, onDelete has returned.
SetUnderDefaults(k) ==
  /\ JustReturned("setValue")
  /\ TheCall.key = k
  /\ TheCall.options.protected = <<>>
  /\ TheCall.options.onUpdate = <<>>
  /\ TheCall.options.onDelete = <<>>
  /\ ~(MapHas(Before, k) /\ MapGet(Before, k).protected /\ ~EffectiveAtCall("force"))

\* C10: a setValue without a per-call protected takes protected from the
\* registry (true after setDefaultOption("protected", true), false after
\* resetDefaultOptions); an entry it creates gets the registry's onUpdate and
\* onDelete attached, none when the registry holds none; resetDefaultOptions
\* restores the initial registry and setDefaultOption changes the named option
\* only.
C10_DefaultPropagationAndReset ==
  /\ JustReturned("setValue")
     => LET c == TheCall
            k == c.key
        IN ( /\ c.options.protected = <<>>
             /\ c.options.onUpdate = <<>>
             /\ c.options.onDelete = <<>>
             /\ ~RejectedCall(c) )
           => /\ isProtected(datastore, k) = c.dopt.protected
              /\ ~MapHas(c.ds, k)
                 => /\ MapGet(datastore, k).onUpdate = c.dopt.onUpdate
                    /\ MapGet(datastore, k).onDelete = c.dopt.onDelete
  /\ JustReturned("resetDefaultOptions") => defaultOptions = initialDefaultOptions
  /\ JustReturned("setDefaultOption")
     => LET c == TheCall
        IN defaultOptions = [c.dopt EXCEPT ![c.key] = c.value]

\* The fourth call of: set a default, write k, reset, write k2.  k carries what
\* the registry held, k2 is unprotected and has no callback.
C10_Witness ==
  \E k, k2 \in Keys :
    /\ Done
    /\ opsLeft = 0
    /\ SetUnderDefaults(k2)
    /\ TheCall.options = NoOptions
    /\ TheCall.dopt = initialDefaultOptions
    /\ ~MapHas(Before, k2)
    /\ MapHas(Before, k)
    /\ MapGet(Before, k).protected
    /\ isProtected(datastore, k)
    /\ ~isProtected(datastore, k2)
    /\ MapGet(datastore, k2).onUpdate = Undefined
    /\ MapGet(datastore, k2).onDelete = Undefined

\* ---- C11 --------------------------------------------------------------------------
\* C11: whatever setDefaultOption calls and store operations came before,
\* resetDefaultOptions leaves the registry, and what getDefaultOptions returns,
\* equal to {protected: false, force: false, silent: false, onUpdate and
\* onDelete unset}.
C11_ResetRestoresInitialSnapshot ==
  JustReturned("resetDefaultOptions")
  => LET snapshot == [protected |-> FALSE, force |-> FALSE, silent |-> FALSE,
                      onUpdate |-> Undefined, onDelete |-> Undefined]
     IN /\ defaultOptions = snapshot
        /\ getDefaultOptions(defaultOptions).fields = snapshot
        /\ initialDefaultOptions = snapshot

\* A reset of a registry in which two options had been set.
C11_Witness ==
  /\ Done
  /\ JustReturned("resetDefaultOptions")
  /\ TheCall.dopt.protected
  /\ TheCall.dopt.onUpdate # Undefined
  /\ defaultOptions = initialDefaultOptions

\* ---- C12 --------------------------------------------------------------------------
\* The caller has just assigned a field of the object getDefaultOptions returned.
Assigned == hist # <<>> /\ Last(hist).ev = "write"

\* C12: getDefaultOptions returns the registry's fields in an object of its
\* own: an assignment to a field of that object leaves the registry (hence
\* the defaults every later setValue, unsetValue and flush resolves against, and
\* the result of a later getDefaultOptions) and the store as they were.
C12_GetDefaultOptionsReturnsCopy ==
  /\ JustReturned("getDefaultOptions")
     => /\ Result.fields = defaultOptions
        /\ defaultOptions = TheCall.dopt
  /\ Assigned
     => /\ defaultOptions = hist[1].dopt
        /\ getDefaultOptions(defaultOptions).fields = hist[1].dopt
        /\ datastore = hist[1].ds

\* The returned object after an assignment: it differs from the registry.
C12_Witness ==
  /\ Assigned
  /\ hist[2].val.fields[Last(hist).key] = Last(hist).value
  /\ hist[2].val.fields # defaultOptions
  /\ defaultOptions # initialDefaultOptions

\* ---- C13 --------------------------------------------------------------------------
\* The per-call value when one is supplied, the registry default otherwise.
PerCallElse(opt, default) == IF opt # <<>> THEN opt[1] ELSE default

\* C13: force, silent and protected of setValue, and silent of unsetValue and
\* flush, are the per-call value whenever one is supplied and the default only
\* when it is omitted: a write to a protected entry is rejected exactly when
\* that force is false, the attached callback is skipped exactly when that
\* silent is true, and a write leaves the entry with that protected.
C13_OptionPrecedence ==
  /\ JustReturned("setValue")
     => LET i == CallIndex
            c == hist[i]
            k == c.key
            old == MapGet(c.ds, k)
            force == PerCallElse(c.options.force, c.dopt.force)
            silent == PerCallElse(c.options.silent, c.dopt.silent)
            protected == PerCallElse(c.options.protected, c.dopt.protected)
            guarded == MapHas(c.ds, k) /\ old.protected
        IN /\ (guarded /\ ~force)
              => (Result = old.value /\ datastore = c.ds /\ CallbacksOf(i) = <<>>)
           /\ ~(guarded /\ ~force)
              => /\ Result = c.value
                 /\ getValue(datastore, k) = c.value
                 /\ isProtected(datastore, k) = protected
                 /\ (MapHas(c.ds, k) /\ old.onUpdate # Undefined)
                    => ((CallbacksOf(i) = <<>>) <=> silent)
  /\ JustReturned("unsetValue")
     => LET i == CallIndex
            c == hist[i]
            silent == PerCallElse(c.options.silent, c.dopt.silent)
        IN (MapHas(c.ds, c.key) /\ MapGet(c.ds, c.key).onDelete # Undefined)
           => ((CallbacksOf(i) = <<>>) <=> silent)
  /\ JustReturned("flush")
     => LET i == CallIndex
            c == hist[i]
            silent == PerCallElse(c.options.silent, c.dopt.silent)
            notified == {n \in 1..Len(c.ds) : c.ds[n].item.onDelete # Undefined}
        IN /\ silent => CallbacksOf(i) = <<>>
           /\ ~silent => Len(CallbacksOf(i)) = Cardinality(notified)

\* With defaults.force = true, setValue(k, v2, {force: false}) on a protected
\* entry holding v1 has been rejected.
C13_Witness ==
  /\ Done
  /\ JustReturned("setValue")
  /\ TheCall.dopt.force
  /\ TheCall.options.force = <<FALSE>>
  /\ MapHas(Before, TheCall.key)
  /\ MapGet(Before, TheCall.key).protected
  /\ MapGet(Before, TheCall.key).value # TheCall.value
  /\ Result = MapGet(Before, TheCall.key).value
  /\ datastore = Before

\* ---- C14 --------------------------------------------------------------------------
\* The Map `ds` has an entry for k / an entry for k whose protected flag is true.
HasEntry(ds, k) == \E n \in 1..Len(ds) : ds[n].key = k

HasProtectedEntry(ds, k) == \E n \in 1..Len(ds) : ds[n].key = k /\ ds[n].item.protected

\* C14: in every reachable state isProtected(k) is true exactly when k has an
\* entry whose protected flag is true (so false for an absent key) and isSet(k)
\* exactly when k has an entry; the calls return just that.
C14_IsProtectedIsSet ==
  /\ \A k \in Keys :
       /\ isProtected(datastore, k) = HasProtectedEntry(datastore, k)
       /\ isSet(datastore, k) = HasEntry(datastore, k)
  /\ JustReturned("isProtected")
     => Result = HasProtectedEntry(datastore, TheCall.key)
  /\ JustReturned("isSet")
     => Result = HasEntry(datastore, TheCall.key)

\* isProtected(k) has returned true while another key has an unprotected entry.
C14_Witness ==
  /\ JustReturned("isProtected")
  /\ Result = TRUE
  /\ \E k \in Keys : isSet(datastore, k) /\ ~isProtected(datastore, k)

\* ---- C15 --------------------------------------------------------------------------
ReadOps ==
  {"getValue", "getMetadata", "getAllValues", "getAllMetadata", "isSet", "isProtected",
   "getDefaultOptions"}

\* A read operation has just returned.
JustRead == hist # <<>> /\ Last(hist).ev = "ret" /\ Last(hist).op \in ReadOps

\* C15: a read operation leaves the store and the default options as they were
\* and invokes no callback; getValue and getMetadata return undefined for an
\* absent key (and the value, the entry, for a present one).
C15_ReadsChangeNothing ==
  JustRead
  => LET i == CallIndex
         c == hist[i]
     IN /\ datastore = c.ds
        /\ defaultOptions = c.dopt
        /\ i = Len(hist) - 1
        /\ c.op = "getValue"
           => IF HasEntry(c.ds, c.key)
              THEN Result = MapGet(c.ds, c.key).value
              ELSE Result = Undefined
        /\ c.op = "getMetadata"
           => IF HasEntry(c.ds, c.key)
              THEN Result = MapGet(c.ds, c.key)
              ELSE Result = Undefined

\* getMetadata of an absent key has returned undefined, with another key in the
\* store and a default option set.
C15_Witness ==
  /\ JustReturned("getMetadata")
  /\ ~HasEntry(datastore, TheCall.key)
  /\ Result = Undefined
  /\ datastore # <<>>
  /\ defaultOptions # initialDefaultOptions

\* ---- C16 --------------------------------------------------------------------------
\* C16: unsetValue on an absent key returns undefined at once: no callback is
\* invoked, whatever the default onDelete and silent are, and the store and the
\* default options are as they were.
C16_UnsetAbsentIsNoOp ==
  JustReturned("unsetValue")
  => LET i == CallIndex
         c == hist[i]
     IN ~HasEntry(c.ds, c.key)
        => /\ datastore = c.ds
           /\ defaultOptions = c.dopt
           /\ i = Len(hist) - 1
           /\ Result = Undefined

\* unsetValue of an absent key has returned while a default onDelete is set,
\* silent is off and another key is in the store.
C16_Witness ==
  /\ Done
  /\ JustReturned("unsetValue")
  /\ ~HasEntry(Before, TheCall.key)
  /\ TheCall.dopt.onDelete # Undefined
  /\ ~EffectiveAtCall("silent")
  /\ datastore # <<>>
  /\ datastore = Before

\* ---- C17 --------------------------------------------------------------------------
\* C17: setValue(k, ...) and unsetValue(k, ...), when no callback they invoke
\* calls the store, leave every other key as it was: present or absent, and
\* when present with the same value, protected flag, callbacks, createdAt and
\* updatedAt.
C17_OtherKeysUntouched ==
  (JustReturned("setValue") \/ JustReturned("unsetValue"))
  => LET i == CallIndex
         c == hist[i]
     IN NestedCallsOf(i) = <<>>
        => \A k \in Keys \ {c.key} :
             /\ HasEntry(datastore, k) = HasEntry(c.ds, k)
             /\ HasEntry(c.ds, k) => MapGet(datastore, k) = MapGet(c.ds, k)

\* An unsetValue that called its onDelete has returned, at a later time than
\* the last write of another key, which is still there.
C17_Witness ==
  /\ Done
  /\ JustReturned("unsetValue")
  /\ OwnCallbacks # <<>>
  /\ \E k \in Keys \ {TheCall.key} :
       /\ HasEntry(datastore, k)
       /\ MapGet(datastore, k).updatedAt < now
       /\ MapGet(datastore, k) = MapGet(Before, k)

\* ---- C18 --------------------------------------------------------------------------
\* An operation has just returned.
JustReturnedAny == hist # <<>> /\ Last(hist).ev = "ret"

PresentKeys(ds) == {k \in Keys : HasEntry(ds, k)}

\* C18: over one operation (its callbacks calling nothing) a key becomes
\* present only by a setValue on it, and a setValue on an absent key always
\* makes it present, whatever the defaults; a key becomes absent only by an
\* unsetValue on it or by a flush; a rejected setValue, a read operation,
\* setDefaultOption and resetDefaultOptions leave the set of present keys as
\* it was.
C18_PerKeyStateMachine ==
  JustReturnedAny
  => LET i == CallIndex
         c == hist[i]
         was == PresentKeys(c.ds)
         is == PresentKeys(datastore)
     IN NestedCallsOf(i) = <<>>
        => /\ \A k \in is \ was : c.op = "setValue" /\ c.key = k
           /\ \A k \in was \ is : (c.op = "unsetValue" /\ c.key = k) \/ c.op = "flush"
           /\ (c.op = "setValue" /\ c.key \notin was)
              => (c.key \in is /\ getValue(datastore, c.key) = c.value)
           /\ (c.op = "setValue" /\ RejectedCall(c)) => is = was
           /\ c.op \in ReadOps \cup {"setDefaultOption", "resetDefaultOptions"} => is = was

\* A setValue without options has created an entry while the default protected
\* was true and the default force false.
C18_Witness ==
  /\ Done
  /\ JustReturned("setValue")
  /\ TheCall.options = NoOptions
  /\ TheCall.dopt.protected
  /\ ~TheCall.dopt.force
  /\ ~HasEntry(Before, TheCall.key)
  /\ HasEntry(datastore, TheCall.key)
  /\ isProtected(datastore, TheCall.key)

\* ---- C19 --------------------------------------------------------------------------
\* C19: with a clock that only moves forward, every entry of the store has
\* createdAt <= updatedAt, in every reachable state.
C19_CreatedBeforeUpdated ==
  \A n \in 1..Len(datastore) :
    /\ datastore[n].item.createdAt # NoTime
    /\ datastore[n].item.createdAt <= datastore[n].item.updatedAt
    /\ datastore[n].item.updatedAt <= now

\* An entry updated at a later time than it was created.
C19_Witness ==
  \E n \in 1..Len(datastore) :
    /\ datastore[n].item.createdAt < datastore[n].item.updatedAt
    /\ datastore[n].item.updatedAt = now

\* ---- C20 --------------------------------------------------------------------------
\* C20: the setValue that creates an entry stamps createdAt and updatedAt with
\* the same current time; a later successful setValue keeps createdAt and
\* stamps updatedAt with the current time (the time of the write, after the
\* callback); a rejected setValue changes neither.
C20_Timestamps ==
  JustReturned("setValue")
  => LET c == TheCall
         k == c.key
         old == MapGet(c.ds, k)
         new == MapGet(datastore, k)
     IN /\ HasEntry(datastore, k)
        /\ ~HasEntry(c.ds, k)
           => (new.createdAt = now /\ new.updatedAt = now)
        /\ (HasEntry(c.ds, k) /\ ~RejectedCall(c))
           => (new.createdAt = old.createdAt /\ new.updatedAt = now)
        /\ RejectedCall(c)
           => (new.createdAt = old.createdAt /\ new.updatedAt = old.updatedAt)

\* A successful overwrite during whose callback the clock moved: updatedAt is
\* the time of the write, later than the call and than createdAt.
C20_Witness ==
  /\ Done
  /\ JustReturned("setValue")
  /\ HasEntry(Before, TheCall.key)
  /\ OwnCallbacks # <<>>
  /\ TheCall.now < now
  /\ MapGet(datastore, TheCall.key).updatedAt = now
  /\ MapGet(datastore, TheCall.key).createdAt = MapGet(Before, TheCall.key).createdAt
  /\ MapGet(datastore, TheCall.key).createdAt < now

\* ---- C21 --------------------------------------------------------------------------
\* C21, as the README documents it: after setValue(k, a, {protected: true}),
\* the rejected setValue(k, b, {onUpdate: updateCallback}) and setValue(k, c,
\* {force: true}), the entry of k has value c, protected false and onUpdate
\* updateCallback, and getMetadata(k) returns just that.
C21_ReadmeExample ==
  /\ (JustReturned("setValue") /\ ReadmeLine = 6)
     => LET entry == MapGet(datastore, TheCall.key)
        IN /\ entry.value = TheCall.value
           /\ ~entry.protected
           /\ entry.onUpdate = updateCallback
  /\ (JustReturned("getMetadata") /\ ReadmeLine = 8)
     => /\ ~Result.protected
        /\ Result.onUpdate = updateCallback

\* ---- C22 --------------------------------------------------------------------------
\* The keys of a result of getAllValues or getAllMetadata.
ListedKeys(all) == {all[n].key : n \in 1..Len(all)}

\* C22: in every reachable state getAllValues() holds exactly the present keys,
\* each once and with getValue(key), and getAllMetadata() the same keys, each
\* with getMetadata(key); the calls return just that, and both are empty
\* after a flush.
C22_GetAllMatchesStore ==
  LET values == getAllValues(datastore)
      metadata == getAllMetadata(datastore)
  IN /\ ListedKeys(values) = PresentKeys(datastore)
     /\ ListedKeys(metadata) = PresentKeys(datastore)
     /\ Len(values) = Cardinality(PresentKeys(datastore))
     /\ Len(metadata) = Cardinality(PresentKeys(datastore))
     /\ \A n \in 1..Len(values) : values[n].value = getValue(datastore, values[n].key)
     /\ \A n \in 1..Len(metadata) : metadata[n].item = getMetadata(datastore, metadata[n].key)
     /\ JustReturned("getAllValues") => Result = values
     /\ JustReturned("getAllMetadata") => Result = metadata
     /\ JustReturned("flush") => (values = <<>> /\ metadata = <<>>)

\* getAllValues has returned two keys with different values.
C22_Witness ==
  /\ JustReturned("getAllValues")
  /\ Len(Result) = 2
  /\ Result[1].value # Result[2].value
  /\ Result[1].key # Result[2].key

\* ---- C23 --------------------------------------------------------------------------
RegistryOps == {"setDefaultOption", "resetDefaultOptions"}

\* C23: setValue, unsetValue, flush and the read operations leave the default
\* options as they were, whatever options they are given and whatever callback
\* they invoke.
C23_StoreNeverWritesRegistry ==
  JustReturnedAny
  => LET i == CallIndex
         c == hist[i]
         registry(e) == e.ev = "call" /\ e.op \in RegistryOps
     IN (c.op \notin RegistryOps /\ Count(NestedCallsOf(i), registry) = 0)
        => defaultOptions = c.dopt

\* A setValue with {force: true} has overwritten a protected entry and invoked
\* its callback, under a registry that differs from the initial one and whose
\* force is still false.
C23_Witness ==
  /\ Done
  /\ JustReturned("setValue")
  /\ TheCall.options.force = <<TRUE>>
  /\ HasEntry(Before, TheCall.key)
  /\ MapGet(Before, TheCall.key).protected
  /\ OwnCallbacks # <<>>
  /\ ~defaultOptions.force
  /\ defaultOptions # initialDefaultOptions
  /\ defaultOptions = TheCall.dopt

\* ---- C24 --------------------------------------------------------------------------
\* C24: setDefaultOption(name, value) leaves the named default equal to value
\* and the other four defaults, and the store, as they were.
C24_SetDefaultOptionSetsOne ==
  JustReturned("setDefaultOption")
  => LET c == TheCall
     IN /\ defaultOptions[c.key] = c.value
        /\ \A name \in DOMAIN defaultOptions \ {c.key} :
             defaultOptions[name] = c.dopt[name]
        /\ DOMAIN defaultOptions = DOMAIN c.dopt
        /\ datastore = c.ds

\* setDefaultOption("protected", true) has returned in a registry whose force
\* and onDelete had been set before.
C24_Witness ==
  /\ Done
  /\ JustReturned("setDefaultOption")
  /\ TheCall.key = "protected"
  /\ defaultOptions.protected
  /\ ~TheCall.dopt.protected
  /\ defaultOptions.force
  /\ defaultOptions.onDelete # Undefined
  /\ ~defaultOptions.silent

\* ---- C25 --------------------------------------------------------------------------
\* C25: after a successful setValue (during which no callback changed the
\* registry) the protected flag is options.protected ?? defaults.protected,
\* whatever it was before: a protected entry is unprotected by an update that
\* omits protected under a default of false, an unprotected one is protected
\* by an update with {protected: true}.
C25_ProtectionRecomputed ==
  JustReturned("setValue")
  => LET i == CallIndex
         c == hist[i]
         k == c.key
         registry(e) == e.ev = "call" /\ e.op \in RegistryOps
     IN (~RejectedCall(c) /\ Count(NestedCallsOf(i), registry) = 0)
        => /\ HasEntry(datastore, k)
           /\ MapGet(datastore, k).protected =
                PerCallElse(c.options.protected, c.dopt.protected)
           /\ (c.options.protected = <<>> /\ ~c.dopt.protected) => ~isProtected(datastore, k)
           /\ c.options.protected = <<TRUE>> => isProtected(datastore, k)

\* An update with {protected: true} has protected an entry that was not.
C25_Witness ==
  /\ Done
  /\ JustReturned("setValue")
  /\ TheCall.options.protected = <<TRUE>>
  /\ ~TheCall.dopt.protected
  /\ HasEntry(Before, TheCall.key)
  /\ ~MapGet(Before, TheCall.key).protected
  /\ isProtected(datastore, TheCall.key)

\* ---- C26 --------------------------------------------------------------------------
\* C26: a successful setValue on an entry that has an onUpdate (onDelete)
\* leaves that callback attached, also when its options name another one; and
\* no operation whose callbacks call nothing changes the attached callback of a
\* key that stays present.
C26_FirstWriteWins ==
  /\ JustReturned("setValue")
     => LET c == TheCall
            k == c.key
            old == MapGet(c.ds, k)
            new == MapGet(datastore, k)
        IN (HasEntry(c.ds, k) /\ ~RejectedCall(c))
           => /\ HasEntry(datastore, k)
              /\ old.onUpdate # Undefined => new.onUpdate = old.onUpdate
              /\ old.onDelete # Undefined => new.onDelete = old.onDelete
  /\ JustReturnedAny
     => LET i == CallIndex
            c == hist[i]
        IN NestedCallsOf(i) = <<>>
           => \A k \in PresentKeys(c.ds) \cap PresentKeys(datastore) :
                LET old == MapGet(c.ds, k)
                    new == MapGet(datastore, k)
                IN /\ old.onUpdate # Undefined => new.onUpdate = old.onUpdate
                   /\ old.onDelete # Undefined => new.onDelete = old.onDelete

\* setValue(k, v, {onUpdate: cb2}) on an entry with onUpdate cb1 has called cb1
\* and left cb1 attached.
C26_Witness ==
  /\ Done
  /\ JustReturned("setValue")
  /\ TheCall.options.onUpdate # <<>>
  /\ HasEntry(Before, TheCall.key)
  /\ MapGet(Before, TheCall.key).onUpdate # Undefined
  /\ MapGet(Before, TheCall.key).onUpdate # TheCall.options.onUpdate[1]
  /\ Len(OwnCallbacks) = 1
  /\ OwnCallbacks[1].cb = MapGet(Before, TheCall.key).onUpdate
  /\ MapGet(datastore, TheCall.key).onUpdate = MapGet(Before, TheCall.key).onUpdate

\* ---- C27 --------------------------------------------------------------------------
\* C27: a setValue invokes only the onUpdate the entry had when it was called:
\* none when the key is absent or the entry has no onUpdate, whatever the
\* options and the defaults supply; the write then attaches the supplied or
\* default onUpdate, and a later non-silent update of an entry invokes the
\* onUpdate attached to it.
C27_NeverInvokesWhatItAttaches ==
  JustReturned("setValue")
  => LET i == CallIndex
         c == hist[i]
         k == c.key
         present == HasEntry(c.ds, k)
         old == IF present THEN MapGet(c.ds, k) ELSE EmptyItem
         cbs == CallbacksOf(i)
     IN /\ old.onUpdate = Undefined
           => /\ cbs = <<>>
              /\ i = Len(hist) - 1
              /\ ~RejectedCall(c)
                 => MapGet(datastore, k).onUpdate =
                      PerCallElse(c.options.onUpdate, c.dopt.onUpdate)
        /\ \A n \in 1..Len(cbs) : cbs[n].kind = "onUpdate" /\ cbs[n].cb = old.onUpdate
        /\ (old.onUpdate # Undefined /\ ~RejectedCall(c) /\ ~EffectiveOf(c, "silent"))
           => Len(cbs) = 1

\* The first update of an entry without an onUpdate, with {onUpdate: cb}: the
\* callback is attached and was not invoked.
C27_Witness ==
  /\ Done
  /\ JustReturned("setValue")
  /\ HasEntry(Before, TheCall.key)
  /\ MapGet(Before, TheCall.key).onUpdate = Undefined
  /\ TheCall.options.onUpdate # <<>>
  /\ ~EffectiveAtCall("silent")
  /\ OwnCallbacks = <<>>
  /\ MapGet(datastore, TheCall.key).onUpdate = TheCall.options.onUpdate[1]

\* ---- C28 --------------------------------------------------------------------------
\* C28: every callback that unsetValue or flush invokes is the onDelete
\* attached to the entry being removed, which is in the store when the callback
\* is entered; removing an entry without an onDelete invokes nothing, whatever
\* the default onDelete is.
C28_OnlyAttachedOnDelete ==
  /\ EnteredOnDelete
     => LET e == Last(hist)
        IN /\ HasEntry(datastore, e.key)
           /\ e.cb # Undefined
           /\ e.cb = MapGet(datastore, e.key).onDelete
  /\ JustReturned("unsetValue")
     => LET i == CallIndex
            c == hist[i]
        IN (HasEntry(c.ds, c.key) /\ MapGet(c.ds, c.key).onDelete = Undefined)
           => CallbacksOf(i) = <<>> /\ i = Len(hist) - 1
  /\ JustReturned("flush")
     => LET i == CallIndex
            c == hist[i]
            cbs == CallbacksOf(i)
        IN /\ \A n \in 1..Len(cbs) : cbs[n].kind = "onDelete"
           /\ Count(NestedCallsOf(i), MutatesStore) = 0
              => \A n \in 1..Len(cbs) :
                   /\ HasEntry(c.ds, cbs[n].key)
                   /\ cbs[n].cb = MapGet(c.ds, cbs[n].key).onDelete
                   /\ cbs[n].cb # Undefined

\* An entry without an onDelete removed without a callback while the default
\* onDelete is set and silent is off.
C28_Witness ==
  /\ Done
  /\ JustReturned("unsetValue")
  /\ HasEntry(Before, TheCall.key)
  /\ MapGet(Before, TheCall.key).onDelete = Undefined
  /\ TheCall.dopt.onDelete # Undefined
  /\ ~EffectiveAtCall("silent")
  /\ OwnCallbacks = <<>>
  /\ ~HasEntry(datastore, TheCall.key)

\* ---- C29 --------------------------------------------------------------------------
\* C29: setDefaultOption and resetDefaultOptions leave the store as it is:
\* every entry keeps its protected flag and its callbacks, and an entry that
\* was protected stays protected after resetDefaultOptions has put the default
\* back to false.
C29_RegistryNeverWritesStore ==
  (JustReturnedAny /\ TheCall.op \in RegistryOps)
  => LET c == TheCall
     IN /\ datastore = c.ds
        /\ \A k \in PresentKeys(c.ds) :
             /\ HasEntry(datastore, k)
             /\ MapGet(datastore, k).onUpdate = MapGet(c.ds, k).onUpdate
             /\ MapGet(datastore, k).onDelete = MapGet(c.ds, k).onDelete
             /\ isProtected(datastore, k) = MapGet(c.ds, k).protected
        /\ c.op = "resetDefaultOptions"
           => /\ ~defaultOptions.protected
              /\ \A k \in Keys : HasProtectedEntry(c.ds, k) => isProtected(datastore, k)

\* resetDefaultOptions has returned: the default protected was true and is
\* false, and an entry is still protected.
C29_Witness ==
  /\ Done
  /\ JustReturned("resetDefaultOptions")
  /\ TheCall.dopt.protected
  /\ ~defaultOptions.protected
  /\ \E k \in Keys : isProtected(datastore, k)

\* ---- C30 --------------------------------------------------------------------------
\* C30: once unsetValue(k) or flush has returned, k has no entry; the setValue
\* on k that follows invokes no callback and leaves an entry made of its
\* arguments, the defaults and the time of the call alone: onUpdate and
\* onDelete are options ?? defaults, protected is options.protected ??
\* defaults.protected, createdAt equals updatedAt.
C30_RemovalForgets ==
  /\ (opsLeft = 1 /\ stack = <<>>) => ~HasEntry(datastore, removedKey)
  /\ (opsLeft = 0 /\ JustReturned("setValue"))
     => LET i == CallIndex
            c == hist[i]
            new == MapGet(datastore, removedKey)
        IN /\ c.key = removedKey
           /\ ~HasEntry(c.ds, removedKey)
           /\ i = Len(hist) - 1
           /\ HasEntry(datastore, removedKey)
           /\ new.value = c.value
           /\ new.onUpdate = PerCallElse(c.options.onUpdate, c.dopt.onUpdate)
           /\ new.onDelete = PerCallElse(c.options.onDelete, c.dopt.onDelete)
           /\ new.protected = PerCallElse(c.options.protected, c.dopt.protected)
           /\ new.createdAt = new.updatedAt
           /\ new.createdAt = c.now

\* The key set again after its removal, later than the clock's start, with no
\* onUpdate supplied: the new entry has none and is stamped with that time.
C30_Witness ==
  /\ Done
  /\ opsLeft = 0
  /\ JustReturned("setValue")
  /\ TheCall.options.onUpdate = <<>>
  /\ TheCall.dopt.onUpdate = Undefined
  /\ now > 0
  /\ MapGet(datastore, removedKey).onUpdate = Undefined
  /\ MapGet(datastore, removedKey).createdAt = now

\* ---- C31 --------------------------------------------------------------------------
\* C31: when callbacks of setValue(k, v) called unsetValue(k2) for another,
\* present key k2 and called setValue on k2 at no time, then at the return of
\* the setValue k2 is absent and k holds v, and the onDelete of k2 was invoked
\* with (k2, its value) unless that unsetValue was silent.
C31_NestedUnsetIsVisible ==
  JustReturned("setValue")
  => LET i == CallIndex
         c == hist[i]
         nested == NestedCallsOf(i)
     IN \A n \in 1..Len(nested) :
          LET u == nested[n]
              k2 == u.key
              resets(e) == e.op = "setValue" /\ e.key = k2
              fired(e) == /\ e.ev = "cb"
                          /\ e.kind = "onDelete"
                          /\ e.key = k2
                          /\ e.cb = MapGet(u.ds, k2).onDelete
                          /\ e.a1 = MapGet(u.ds, k2).value
          IN (/\ u.op = "unsetValue"
              /\ k2 # c.key
              /\ HasEntry(u.ds, k2)
              /\ Count(nested, resets) = 0)
             => /\ ~HasEntry(datastore, k2)
                /\ getValue(datastore, c.key) = c.value
                /\ (MapGet(u.ds, k2).onDelete # Undefined /\ ~EffectiveOf(u, "silent"))
                   => Count(hist, fired) >= 1

\* The onUpdate callback of updatedKey has called unsetValue(deletedKey), whose
\* onDelete was invoked; the setValue has returned, deletedKey is gone and
\* updatedKey has the new value.
C31_Witness ==
  /\ Done
  /\ JustReturned("setValue")
  /\ TheCall.key = updatedKey
  /\ TheCall.value # firstValue
  /\ Len(NestedCalls) = 1
  /\ NestedCalls[1].op = "unsetValue"
  /\ NestedCalls[1].key = deletedKey
  /\ \E n \in 1..Len(hist) : hist[n].ev = "cb" /\ hist[n].kind = "onDelete"
  /\ ~HasEntry(datastore, deletedKey)
  /\ getValue(datastore, updatedKey) = TheCall.value

\* ---- C32 --------------------------------------------------------------------------
\* C32: when unsetValue(k) returns, k is absent, also when callbacks called
\* setValue(k, ...) during the removal: none of the values they wrote is left.
C32_RemovalIsUnconditional ==
  JustReturned("unsetValue")
  => LET i == CallIndex
         c == hist[i]
         nested == NestedCallsOf(i)
     IN /\ ~HasEntry(datastore, c.key)
        /\ getMetadata(datastore, c.key) = Undefined
        /\ \A n \in 1..Len(nested) :
             (nested[n].op = "setValue" /\ nested[n].key = c.key)
             => getValue(datastore, c.key) # nested[n].value

\* The onDelete callback of unsetValue(deletedKey) has called
\* setValue(deletedKey, v) with another value, which was written; the
\* unsetValue has returned and the key is gone.
C32_Witness ==
  /\ Done
  /\ JustReturned("unsetValue")
  /\ TheCall.key = deletedKey
  /\ HasEntry(Before, deletedKey)
  /\ Len(OwnCallbacks) = 1
  /\ Len(NestedCalls) = 1
  /\ NestedCalls[1].op = "setValue"
  /\ NestedCalls[1].key = deletedKey
  /\ NestedCalls[1].value # firstValue
  /\ ~RejectedCall(NestedCalls[1])
  /\ ~HasEntry(datastore, deletedKey)

\* ---- C33 --------------------------------------------------------------------------
\* A call that takes the key of the call c out of the store.
Removes(e, c) == e.op = "flush" \/ (e.op = "unsetValue" /\ e.key = c.key)

\* C33: a setValue(k, v, options) that passed the protection check returns
\* with k present, holding v and protected = options.protected ??
\* defaults.protected (the defaults of the call, when no callback changed
\* them), whatever its onUpdate callback did to k; when the callback removed
\* k, the entry written back has the createdAt, the onUpdate and the onDelete
\* that the entry had before.
C33_WriteAlwaysLands ==
  JustReturned("setValue")
  => LET i == CallIndex
         c == hist[i]
         k == c.key
         old == MapGet(c.ds, k)
         new == MapGet(datastore, k)
         nested == NestedCallsOf(i)
         registry(e) == e.op \in RegistryOps
         removes(e) == Removes(e, c)
     IN ~RejectedCall(c)
        => /\ HasEntry(datastore, k)
           /\ new.value = c.value
           /\ new.updatedAt = now
           /\ new.protected = Coalesce(c.options.protected, defaultOptions.protected)
           /\ Count(nested, registry) = 0
              => new.protected = PerCallElse(c.options.protected, c.dopt.protected)
           /\ Count(nested, removes) > 0
              => /\ new.createdAt = old.createdAt
                 /\ new.onUpdate = old.onUpdate
                 /\ old.onDelete # Undefined => new.onDelete = old.onDelete

\* The onUpdate callback of setValue(updatedKey, v) has removed updatedKey, at
\* a later time than the key was created; the setValue has returned and the
\* entry is back with v, its old createdAt and its old onUpdate.
C33_Witness ==
  /\ Done
  /\ JustReturned("setValue")
  /\ TheCall.key = updatedKey
  /\ Len(NestedCalls) = 1
  /\ Removes(NestedCalls[1], TheCall)
  /\ getValue(datastore, updatedKey) = TheCall.value
  /\ MapGet(datastore, updatedKey).createdAt < now
  /\ MapGet(datastore, updatedKey).onUpdate = updateCallback

\* ---- C34 --------------------------------------------------------------------------
\* C34: whenever flush returns the store is empty, whatever the callbacks did
\* during the flush: the keys they added, or added again, are removed by it.
C34_FlushLeavesNothing ==
  JustReturned("flush") => datastore = <<>> /\ getAllValues(datastore) = <<>>

\* During a flush that found both keys, the onDelete callback of deletedKey has
\* set updatedKey again, after the flush had removed it; the flush has
\* returned and the store is empty.
C34_Witness ==
  /\ Done
  /\ JustReturned("flush")
  /\ Len(Before) = 2
  /\ Len(NestedCalls) = 1
  /\ NestedCalls[1].op = "setValue"
  /\ NestedCalls[1].key = updatedKey
  /\ ~HasEntry(NestedCalls[1].ds, updatedKey)
  /\ datastore = <<>>

\* ---- C35 --------------------------------------------------------------------------
\* The keys of a sequence of entries, in its order.
KeyOrder(all) == [n \in 1..Len(all) |-> all[n].key]

NotIndexKey(key) == key \notin IndexKeys

\* Over one call the Map's order changes by that call's key alone: a setValue
\* on a present key leaves the order as it is, a setValue on an absent key
\* puts the key last, an unsetValue takes the key out, a listing changes
\* nothing.
InsertionOrderKept ==
  JustReturnedAny
  => LET c == TheCall
         before == KeyOrder(c.ds)
         after == KeyOrder(datastore)
         others(key) == key # c.key
     IN IF c.op = "setValue"
        THEN IF HasEntry(c.ds, c.key)
             THEN after = before /\ getValue(datastore, c.key) = c.value
             ELSE after = Append(before, c.key)
        ELSE IF c.op = "unsetValue"
        THEN after = SelectSeq(before, others)
        ELSE after = before

\* C35 as stated: getAllValues() and getAllMetadata() list the keys in the
\* Map's insertion order, which an update leaves as it is and in which a key
\* set again after its removal is last.
C35_AsStated ==
  /\ KeyOrder(getAllValues(datastore)) = KeyOrder(datastore)
  /\ KeyOrder(getAllMetadata(datastore)) = KeyOrder(datastore)
  /\ InsertionOrderKept

\* C35, amended: getAllValues() and getAllMetadata() list the array-index keys
\* first, in ascending numeric order, and then the other keys in the Map's
\* insertion order, which an update leaves as it is and in which a key set
\* again after its removal is last; the calls return just that.
C35_InsertionOrder ==
  LET values == KeyOrder(getAllValues(datastore))
      metadata == KeyOrder(getAllMetadata(datastore))
  IN /\ metadata = values
     /\ Len(values) = Len(datastore)
     /\ SelectSeq(values, NotIndexKey) = SelectSeq(KeyOrder(datastore), NotIndexKey)
     /\ \A a, b \in 1..Len(values) :
          a < b => /\ values[b] \in IndexKeys => values[a] \in IndexKeys
                   /\ (values[a] \in IndexKeys /\ values[b] \in IndexKeys)
                      => ToNumber[values[a]] < ToNumber[values[b]]
     /\ JustReturned("getAllValues") => Result = getAllValues(datastore)
     /\ JustReturned("getAllMetadata") => Result = getAllMetadata(datastore)
     /\ InsertionOrderKept

\* getAllValues() has returned for a store whose Map holds "10", a key, "2"
\* and another key, in this order: the listing is "2", "10" and then the two
\* other keys in their Map order.
C35_Witness ==
  /\ Done
  /\ JustReturned("getAllValues")
  /\ Len(datastore) = 4
  /\ datastore[1].key = "10"
  /\ datastore[3].key = "2"
  /\ KeyOrder(Result) = << "2", "10", datastore[2].key, datastore[4].key >>

\* ---- C36 --------------------------------------------------------------------------
\* C36: in the version-2 module a non-silent unset(k) of an entry with an
\* onDelete invokes it once with the key and the value stored under the key,
\* the one get(k) returned before the removal.
C36_OnDeleteGetsStoredValue ==
  JustReturned("unset")
  => LET i == CallIndex
         c == hist[i]
         cbs == CallbacksOf(i)
     IN (/\ MapHas(c.ds, c.key)
         /\ MapGet(c.ds, c.key).onDelete # Undefined
         /\ ~EffectiveOf(c, "silent"))
        => /\ Len(cbs) = 1
           /\ cbs[1].kind = "onDelete"
           /\ cbs[1].cb = MapGet(c.ds, c.key).onDelete
           /\ cbs[1].key = c.key
           /\ cbs[1].a1 = get(c.ds, c.key, [extended |-> <<FALSE>>])

\* ---- C37 --------------------------------------------------------------------------
\* C37: in the version-1 module a flush whose silent is true (given, or the
\* default) invokes no callback, and neither does an unset whose silent is
\* true.
C37_SilentTriggersNothing ==
  (JustReturned("exports.flush") \/ JustReturned("exports.unset"))
  => LET i == CallIndex
         c == hist[i]
     IN EffectiveOf(c, "silent") => CallbacksOf(i) = <<>>
====
